---- MODULE Spec2Model ----
(***************************************************************************)
(* Model of container-explorer's snapshot handling: the meta.db parent     *)
(* chain walk (snapshotStore.SnapshotKeys, ctrmeta.ContainerParents), the  *)
(* overlay path computation (snapshotStore.OverlayPath,                    *)
(* ctrmeta.ContainerOverlayPaths), the mount operations of the containerd  *)
(* explorer, the legacy mount command and the Docker explorer, and the     *)
(* snapshot listing that merges meta.db with metadata.db.                  *)
(*                                                                         *)
(* Strings of the program are modelled as follows: a snapshot key is a     *)
(* number of Keys, the empty string is EmptyKey, a snapshot name is a      *)
(* number of Names; a path is a record [root, id, leaf]; a colon-joined    *)
(* list of paths is the sequence of its paths (the empty string is the     *)
(* empty sequence).                                                        *)
(***************************************************************************)
EXTENDS Integers, Sequences, FiniteSets, TLC

\* ---------------------------------------------------------------- bounds
\* Number of snapshot keys that may have a bucket in meta.db.
NumKeys == 3
\* Largest file-system id stored in metadata.db.
MaxId == 2
\* Largest number of entries in a Docker "lower" file.
MaxLower == 2
\* Largest number of tasks in a listing.
MaxTasks == 2

\* ---------------------------------------------------------------- values
\* The empty string as a key / parent (parent == "" ends the walk).
EmptyKey == 0
Keys == 1 .. NumKeys
\* The value of the "name" field of the meta.db bucket of key k. Names are
\* the keys of metadata.db; they are distinct from the meta.db keys.
NameOf(k) == NumKeys + k
Names == {NameOf(k) : k \in Keys}

LabelKeys == {"a", "b"}
LabelVals == {"x", "y"}
EmptyMap == [k \in {} |-> "x"]
\* boltutil.ReadLabels yields a nil map when the bucket has no "labels"
\* sub-bucket, a map otherwise.
NilLabels == [isnil |-> TRUE, kv |-> EmptyMap]
MapLabels(m) == [isnil |-> FALSE, kv |-> m]

\* meta.db/v1/<ns>/snapshots/<snapshotter>/<key>
NoMetaBucket ==
    [exists |-> FALSE, name |-> EmptyKey, parent |-> EmptyKey,
     labels |-> NilLabels, createdat |-> "zero"]
MetaBucket(k, p, l) ==
    [exists |-> TRUE, name |-> NameOf(k), parent |-> p,
     labels |-> l, createdat |-> "t-meta"]

\* metadata.db/v1/snapshots/<name>
NoOverlayBucket ==
    [exists |-> FALSE, id |-> 0, kind |-> 0, size |-> 0, parent |-> EmptyKey,
     labels |-> NilLabels, createdat |-> "zero"]
OverlayBucket(i, kd, sz, p, l) ==
    [exists |-> TRUE, id |-> i, kind |-> kd, size |-> sz, parent |-> p,
     labels |-> l, createdat |-> "t-overlay"]

\* A metadata.db without any snapshot bucket.
NoSdb == [n \in Names |-> NoOverlayBucket]

\* The container store of meta.db: container c uses snapshot key c.
Containers == [c \in Keys |-> [ID |-> c, SnapshotKey |-> c]]
\* A container id that is not in the store.
MissingContainer == 0
ContainerIDs == {MissingContainer} \cup Keys

MountPoints == {"/mnt/ctr"}

\* ---------------------------------------------------------------- state
VARIABLES
    backend,       \* the explorer the command runs on: "containerd" or "docker"
    metaDB,        \* meta.db snapshot buckets, opened by NewExplorer
    snapshotOpenable, \* whether bolt.Open of the metadata.db file succeeds
    pc,            \* "idle" before the command runs, the resolver loop it is
                   \* in while it runs, "done" once it has returned
    ctr,           \* container id of the running operation
    mountpoint,    \* mount point of the running operation
    ssk,           \* the loop variable ssk / sskey of the resolver
    snapshotkeys,  \* the slice the resolver appends to
    ret,           \* what the command returned and did
    cgroup,        \* the cgroup directories of the captured image, one per task
    store,         \* the container records on disk (meta.db container store,
                   \* or the config.v2.json files of the docker containers)
    repositories,  \* the docker repositories.json entries
    sc,            \* the explorer's support container policy (e.sc)
    nss,           \* meta.db as the docker explorer opened it: nil, or its namespaces
                   \* (none when it has no meta.db handle)
    sessions,      \* the export sessions running on the host, one process each
    mnt            \* the directories under /mnt of the host and what is mounted on them

\* The files of the captured image that no operation writes.
disk == <<cgroup, store, repositories, sc, nss>>

\* The mdb field of the docker explorer: nil when the containerd root is
\* missing, or meta.db with its namespaces.
NoMdb == [isnil |-> TRUE, list |-> <<>>]
Mdb(list) == [isnil |-> FALSE, list |-> list]

\* The export sessions and the host directories they work in.
host == <<sessions, mnt>>

vars == <<backend, metaDB, snapshotOpenable, pc, ctr, mountpoint, ssk, snapshotkeys, ret,
          cgroup, store, repositories, sc, nss, sessions, mnt>>

\* A host without export sessions and without directories under /mnt.
NoSessions ==
    /\ sessions = <<>>
    /\ mnt = [dirs |-> {}, mounts |-> <<>>]

\* An image without cgroup directories, container records, repositories file
\* and policy.
NoDisk ==
    /\ cgroup = <<>>
    /\ store = <<>>
    /\ repositories = <<>>
    /\ sc = [isnil |-> TRUE]
    /\ nss = NoMdb

\* The walk appends without limit on a cycle; the model records at most
\* MaxWalk names and keeps looping.
MaxWalk == NumKeys + 2

NoPath == [root |-> "", id |-> 0, leaf |-> ""]

NoOpts == [prefix |-> "", paths |-> <<>>]

NoRet ==
    [op |-> "none", ctr |-> MissingContainer, err |-> "nil",
     resolver |-> "none", chainErr |-> "nil", chain |-> <<>>,
     lowerdir |-> <<>>, upperdir |-> NoPath, workdir |-> NoPath,
     executed |-> FALSE, opts |-> NoOpts, mountpoint |-> "",
     sdbOpen |-> FALSE, sdb |-> NoSdb, panic |-> FALSE, list |-> <<>>,
     items |-> <<>>, specOnly |-> FALSE, info |-> "nil"]

\* ---------------------------------------------------------------- meta.db walk
Range(q) == {q[i] : i \in DOMAIN q}

\* getSnapshotKeyBucket / sstrbkt.Bucket: the bucket of a key, or nil.
getSnapshotKeyBucket(k) ==
    IF k \in Keys THEN metaDB[k] ELSE NoMetaBucket

\* snapshotkeys = append(snapshotkeys, name)
AppendNameFront(keys, name) == <<name>> \o keys
AppendName(keys, name) ==
    IF Len(keys) < MaxWalk THEN Append(keys, name) ELSE keys

\* ---------------------------------------------------------------- overlay paths
\* filepath.Join(snapshotroot, "snapshots", fmt.Sprintf("%d", id), leaf)
SnapshotPath(id, leaf) == [root |-> "snapshotroot", id |-> id, leaf |-> leaf]

\* getOverlaySnapshotBucket: metadata.db/v1/snapshots/<name>, or nil.
getOverlaySnapshotBucket(sdb, n) ==
    IF n \in Names THEN sdb[n] ELSE NoOverlayBucket

\* getSnapshotID: error for a nil bucket, else the uvarint of "id".
getSnapshotID(sdb, n) ==
    [err |-> ~getOverlaySnapshotBucket(sdb, n).exists,
     id |-> getOverlaySnapshotBucket(sdb, n).id]

\* lowerdir = fmt.Sprintf("%s:%s", lowerdir, ldir), or ldir when lowerdir == "".
JoinLowerReversed(lowerdir, ldir) == <<ldir>> \o lowerdir
JoinLower(lowerdir, ldir) == lowerdir \o <<ldir>>

\* The loop of OverlayPath over snapshotkeys[1:], from index i on.
RECURSIVE OverlayLower(_, _, _, _)
OverlayLower(sdb, keys, i, lowerdir) ==
    IF i > Len(keys) THEN [err |-> FALSE, lowerdir |-> lowerdir]
    ELSE IF getSnapshotID(sdb, keys[i]).err
         THEN [err |-> TRUE, lowerdir |-> <<>>]
         ELSE OverlayLower(sdb, keys, i + 1,
                  JoinLower(lowerdir,
                      SnapshotPath(getSnapshotID(sdb, keys[i]).id, "fs")))

\* snapshotStore.OverlayPath after SnapshotKeys returned keys without error.
OverlayPath(sdb, keys) ==
    IF getSnapshotID(sdb, keys[1]).err \/ OverlayLower(sdb, keys, 2, <<>>).err
    THEN [err |-> TRUE, lowerdir |-> <<>>, upperdir |-> NoPath, workdir |-> NoPath]
    ELSE [err |-> FALSE,
          lowerdir |-> OverlayLower(sdb, keys, 2, <<>>).lowerdir,
          upperdir |-> SnapshotPath(getSnapshotID(sdb, keys[1]).id, "fs"),
          workdir |-> SnapshotPath(getSnapshotID(sdb, keys[1]).id, "work")]

\* ---------------------------------------------------------------- containerd explorer: mount
\* The metadata.db contents a call may find: a resolved name has no bucket or
\* a bucket with an id. A call reads the buckets of the names it has resolved
\* and no other, so the contents are enumerated for those names only.
ChainSdbsFor(names) ==
    {[n \in Names |-> IF n \in names THEN f[n] ELSE NoOverlayBucket] :
     f \in [names -> {NoOverlayBucket} \cup
                     {OverlayBucket(i, 2, 0, EmptyKey, NilLabels) : i \in 1 .. MaxId}]}

\* if lowerdir == "" { return fmt.Errorf("lowerdir is empty") }
LowerdirCheckNever(lowerdir) == FALSE
LowerdirCheck(lowerdir) == lowerdir = <<>>

\* mountopts := fmt.Sprintf("ro,lowerdir=%s:%s", lowerdir, upperdir)
ContainerdMountOpts(lowerdir, upperdir) ==
    [prefix |-> "ro,lowerdir=", paths |-> lowerdir \o <<upperdir>>]

\* bolt.Open(e.snapshot, ...) failed: return before any snapshot store use.
OpenFailsIgnored(opened) == FALSE
OpenFails(opened) == ~opened

\* MountContainer up to the first iteration of the SnapshotKeys loop.
MountContainer(containerid, mp) ==
    /\ pc = "idle"
    /\ backend = "containerd"
    /\ IF containerid \notin DOMAIN Containers
       THEN /\ ret' = [NoRet EXCEPT !.op = "MountContainer", !.ctr = containerid,
                           !.mountpoint = mp,
                           !.err = "failed getting container information"]
            /\ pc' = "done"
            /\ UNCHANGED <<ctr, mountpoint, ssk, snapshotkeys>>
       ELSE IF OpenFails(snapshotOpenable)
       THEN /\ ret' = [NoRet EXCEPT !.op = "MountContainer", !.ctr = containerid,
                           !.mountpoint = mp,
                           !.err = "failed to open snapshot database"]
            /\ pc' = "done"
            /\ UNCHANGED <<ctr, mountpoint, ssk, snapshotkeys>>
       ELSE /\ pc' = "SnapshotKeys"
            /\ ctr' = containerid
            /\ mountpoint' = mp
            /\ ssk' = Containers[containerid].SnapshotKey
            /\ snapshotkeys' = <<>>
            /\ ret' = NoRet
    /\ UNCHANGED <<host, disk, backend, metaDB, snapshotOpenable>>

\* The rest of MountContainer once SnapshotKeys has returned keys.
MountContainerRest(keys, sdb, mountok) ==
    LET ov == OverlayPath(sdb, keys)
        base == [NoRet EXCEPT !.op = "MountContainer", !.ctr = ctr,
                     !.mountpoint = mountpoint,
                     !.resolver = "SnapshotKeys", !.chain = keys,
                     !.sdbOpen = TRUE, !.sdb = sdb]
    IN  IF ov.err
        THEN [base EXCEPT !.err = "failed to get overlay path"]
        ELSE IF LowerdirCheck(ov.lowerdir)
        THEN [base EXCEPT !.err = "lowerdir is empty",
                  !.lowerdir = ov.lowerdir, !.upperdir = ov.upperdir,
                  !.workdir = ov.workdir]
        ELSE [base EXCEPT !.lowerdir = ov.lowerdir, !.upperdir = ov.upperdir,
                  !.workdir = ov.workdir, !.executed = TRUE,
                  !.opts = ContainerdMountOpts(ov.lowerdir, ov.upperdir),
                  !.err = IF mountok THEN "nil" ELSE "mount failed"]

\* One iteration of the for loop of SnapshotKeys; on break, the rest of
\* OverlayPath and MountContainer.
SnapshotKeysStep ==
    /\ pc = "SnapshotKeys"
    /\ LET bkt == getSnapshotKeyBucket(ssk) IN
       IF ~bkt.exists
       THEN \* "empty meta.db snapshotkey bucket": no keys are returned
            /\ ret' = [NoRet EXCEPT !.op = "MountContainer", !.ctr = ctr,
                           !.mountpoint = mountpoint,
                           !.resolver = "SnapshotKeys", !.chainErr = "error",
                           !.sdbOpen = TRUE,
                           !.err = "failed to get overlay path"]
            /\ pc' = "done"
            /\ ctr' = MissingContainer
            /\ mountpoint' = ""
            /\ ssk' = EmptyKey
            /\ snapshotkeys' = <<>>
       ELSE IF bkt.parent = EmptyKey
       THEN /\ \E sdb \in ChainSdbsFor(Range(AppendName(snapshotkeys, bkt.name))),
                     mountok \in BOOLEAN :
                  ret' = MountContainerRest(AppendName(snapshotkeys, bkt.name),
                                            sdb, mountok)
            /\ pc' = "done"
            /\ ctr' = MissingContainer
            /\ mountpoint' = ""
            /\ ssk' = EmptyKey
            /\ snapshotkeys' = <<>>
       ELSE /\ snapshotkeys' = AppendName(snapshotkeys, bkt.name)
            /\ ssk' = bkt.parent
            /\ UNCHANGED <<pc, ctr, mountpoint, ret>>
    /\ UNCHANGED <<host, disk, backend, metaDB, snapshotOpenable>>

\* ---------------------------------------------------------------- legacy mount command (ctrmeta)
\* ssbkt.Bucket(snapshotter) of meta.db: present when it holds a key bucket.
SnapshotterBucketExists == \E k \in Keys : metaDB[k].exists

\* The loop of ContainerOverlayPaths over parents[1:], from index i on;
\* GetSnapshotID of a nil bucket panics.
RECURSIVE ContainerLower(_, _, _, _)
ContainerLower(sdb, parents, i, lowerdir) ==
    IF i > Len(parents) THEN [panic |-> FALSE, lowerdir |-> lowerdir]
    ELSE IF ~getOverlaySnapshotBucket(sdb, parents[i]).exists
         THEN [panic |-> TRUE, lowerdir |-> <<>>]
         ELSE ContainerLower(sdb, parents, i + 1,
                  JoinLowerReversed(lowerdir,
                      SnapshotPath(getOverlaySnapshotBucket(sdb, parents[i]).id, "fs")))

\* ctrmeta.ContainerOverlayPaths
\* snapshotsbkt: whether metadata.db has the bucket v1/snapshots.
ContainerOverlayPaths(sdb, snapshotsbkt, parents) ==
    IF ~snapshotsbkt
    THEN [panic |-> FALSE, lowerdir |-> <<>>, upperdir |-> NoPath, workdir |-> NoPath]
    ELSE IF \/ ~getOverlaySnapshotBucket(sdb, parents[1]).exists
            \/ ContainerLower(sdb, parents, 2, <<>>).panic
    THEN [panic |-> TRUE, lowerdir |-> <<>>, upperdir |-> NoPath, workdir |-> NoPath]
    ELSE [panic |-> FALSE,
          lowerdir |-> ContainerLower(sdb, parents, 2, <<>>).lowerdir,
          upperdir |-> SnapshotPath(getOverlaySnapshotBucket(sdb, parents[1]).id, "fs"),
          workdir |-> SnapshotPath(getOverlaySnapshotBucket(sdb, parents[1]).id, "work")]

\* opts := fmt.Sprintf("ro,lowerdir=%s:%s", lowerdir, upperdir)
CommandMountOpts(lowerdir, upperdir) ==
    [prefix |-> "ro,lowerdir=", paths |-> lowerdir \o <<upperdir>>]

\* MountCommand up to the first iteration of the ContainerParents loop.
MountCommand(containerid, mp) ==
    /\ pc = "idle"
    /\ backend = "containerd"
    /\ IF containerid \notin DOMAIN Containers
       THEN /\ ret' = [NoRet EXCEPT !.op = "MountCommand", !.ctr = containerid,
                           !.mountpoint = mp,
                           !.err = "error getting container information"]
            /\ pc' = "done"
            /\ UNCHANGED <<ctr, mountpoint, ssk, snapshotkeys>>
       ELSE IF ~snapshotOpenable
       THEN /\ ret' = [NoRet EXCEPT !.op = "MountCommand", !.ctr = containerid,
                           !.mountpoint = mp,
                           !.err = "snapshotter metadata file not found"]
            /\ pc' = "done"
            /\ UNCHANGED <<ctr, mountpoint, ssk, snapshotkeys>>
       ELSE IF ~SnapshotterBucketExists
       THEN /\ ret' = [NoRet EXCEPT !.op = "MountCommand", !.ctr = containerid,
                           !.mountpoint = mp, !.sdbOpen = TRUE,
                           !.resolver = "ContainerParents", !.chainErr = "error",
                           !.err = "snapshotter bucket does not exist"]
            /\ pc' = "done"
            /\ UNCHANGED <<ctr, mountpoint, ssk, snapshotkeys>>
       ELSE /\ pc' = "ContainerParents"
            /\ ctr' = containerid
            /\ mountpoint' = mp
            /\ ssk' = Containers[containerid].SnapshotKey
            /\ snapshotkeys' = <<>>
            /\ ret' = NoRet
    /\ UNCHANGED <<host, disk, backend, metaDB, snapshotOpenable>>

\* The rest of MountCommand once ContainerParents has returned parents.
MountCommandRest(parents, sdb, snapshotsbkt, mountok) ==
    LET ov == ContainerOverlayPaths(sdb, snapshotsbkt, parents)
        base == [NoRet EXCEPT !.op = "MountCommand", !.ctr = ctr,
                     !.mountpoint = mountpoint,
                     !.resolver = "ContainerParents", !.chain = parents,
                     !.sdbOpen = TRUE, !.sdb = sdb]
    IN  IF ov.panic
        THEN [base EXCEPT !.panic = TRUE, !.err = "panic"]
        ELSE IF ov.lowerdir = <<>> \/ ov.upperdir = NoPath \/ ov.workdir = NoPath
        THEN [base EXCEPT !.err = "lowerdir is empty",
                  !.lowerdir = ov.lowerdir, !.upperdir = ov.upperdir,
                  !.workdir = ov.workdir]
        ELSE [base EXCEPT !.lowerdir = ov.lowerdir, !.upperdir = ov.upperdir,
                  !.workdir = ov.workdir, !.executed = TRUE,
                  !.opts = CommandMountOpts(ov.lowerdir, ov.upperdir),
                  !.err = IF mountok THEN "nil" ELSE "mount failed"]

\* One iteration of the for loop of ContainerParents; on break, the rest of
\* MountCommand. The loop reads the bucket without a nil check.
ContainerParentsStep ==
    /\ pc = "ContainerParents"
    /\ LET sskbkt == getSnapshotKeyBucket(ssk) IN
       IF ~sskbkt.exists
       THEN \* sskbkt.Get on a nil bucket: nil pointer dereference
            /\ ret' = [NoRet EXCEPT !.op = "MountCommand", !.ctr = ctr,
                           !.mountpoint = mountpoint,
                           !.resolver = "ContainerParents", !.chainErr = "panic",
                           !.sdbOpen = TRUE, !.panic = TRUE, !.err = "panic"]
            /\ pc' = "done"
            /\ ctr' = MissingContainer
            /\ mountpoint' = ""
            /\ ssk' = EmptyKey
            /\ snapshotkeys' = <<>>
       ELSE IF sskbkt.parent = EmptyKey
       THEN /\ \E sdb \in ChainSdbsFor(Range(AppendName(snapshotkeys, sskbkt.name))),
                     snapshotsbkt \in BOOLEAN, mountok \in BOOLEAN :
                  /\ (\E n \in Names : sdb[n].exists) => snapshotsbkt
                  /\ ret' = MountCommandRest(
                                AppendName(snapshotkeys, sskbkt.name),
                                sdb, snapshotsbkt, mountok)
            /\ pc' = "done"
            /\ ctr' = MissingContainer
            /\ mountpoint' = ""
            /\ ssk' = EmptyKey
            /\ snapshotkeys' = <<>>
       ELSE /\ snapshotkeys' = AppendName(snapshotkeys, sskbkt.name)
            /\ ssk' = sskbkt.parent
            /\ UNCHANGED <<pc, ctr, mountpoint, ret>>
    /\ UNCHANGED <<host, disk, backend, metaDB, snapshotOpenable>>

\* ---------------------------------------------------------------- Docker explorer: mount
\* filepath.Join(e.root, container.Driver, ...)
DockerPath(id, leaf) == [root |-> "dockerroot/overlay2", id |-> id, leaf |-> leaf]

\* The contents of the "lower" file: a colon-separated list of layers.
LowerFiles == UNION {[1 .. n -> 1 .. MaxId] : n \in 0 .. MaxLower}

\* strings.Split(data, ":") joined again after prefixing every element; an
\* empty file splits into one empty element.
RECURSIVE DockerLower(_, _, _)
DockerLower(data, i, lowerdir) ==
    IF i > Len(data) THEN lowerdir
    ELSE DockerLower(data, i + 1, lowerdir \o <<DockerPath(data[i], "")>>)

DockerLowerdir(data) ==
    IF data = <<>> THEN <<DockerPath(0, "")>> ELSE DockerLower(data, 1, <<>>)

\* mountopts := fmt.Sprintf("ro,lowerdir=%s:%s", upperdir, lowerdir)
DockerMountOpts(lowerdir, upperdir) ==
    [prefix |-> "ro,lowerdir=", paths |-> <<upperdir>> \o lowerdir]

\* docker explorer.MountContainer
DockerMountContainer(containerid, mp, mountidok, lowerok, data, mountok) ==
    /\ pc = "idle"
    /\ backend = "docker"
    /\ LET base == [NoRet EXCEPT !.op = "DockerMountContainer",
                        !.ctr = containerid, !.mountpoint = mp]
           lowerdir == DockerLowerdir(data)
           upperdir == DockerPath(containerid, "diff")
           workdir == DockerPath(containerid, "work")
       IN  ret' =
             IF containerid \notin DOMAIN Containers
             THEN [base EXCEPT !.err = "getting container"]
             ELSE IF ~mountidok
             THEN [base EXCEPT !.err = "reading container mount-id"]
             ELSE IF ~lowerok
             THEN [base EXCEPT !.err = "reading lower file"]
             ELSE [base EXCEPT !.lowerdir = lowerdir, !.upperdir = upperdir,
                       !.workdir = workdir, !.executed = TRUE,
                       !.opts = DockerMountOpts(lowerdir, upperdir),
                       !.err = IF mountok THEN "nil"
                               ELSE "executing mount command"]
    /\ pc' = "done"
    /\ UNCHANGED <<host, disk, backend, metaDB, snapshotOpenable, ctr, mountpoint, ssk, snapshotkeys>>

\* ---------------------------------------------------------------- snapshot listing
\* The zero value of explorers.SnapshotKeyInfo for key k.
SnapshotKeyInfo(k) ==
    [Key |-> k, Name |-> EmptyKey, Parent |-> EmptyKey, ID |-> 0, Kind |-> 0,
     Size |-> 0, Labels |-> NilLabels, CreatedAt |-> "zero"]

\* readMetaSnapshotKey: timestamps, name, parent and labels of meta.db.
readMetaSnapshotKey(skinfo, bkt) ==
    [skinfo EXCEPT !.CreatedAt = bkt.createdat, !.Name = bkt.name,
                   !.Parent = bkt.parent, !.Labels = bkt.labels]

\* if skinfo.Parent == "" { skinfo.Parent = parent }
MergeParentOverlayWins(metaparent, parent) ==
    IF parent = EmptyKey THEN metaparent ELSE parent
MergeParent(metaparent, parent) ==
    IF metaparent = EmptyKey THEN parent ELSE metaparent

\* The label loop of readOverlaySnapshotKey: a key meta.db already has keeps
\* its value, any other key is stored into skinfo.Labels.
MergeLabels(metalabels, labels) ==
    [k \in DOMAIN metalabels.kv \cup DOMAIN labels.kv |->
        IF k \in DOMAIN metalabels.kv THEN metalabels.kv[k] ELSE labels.kv[k]]

\* skinfo.Labels[k] = v on a nil map panics: it happens when the loop meets
\* a key that skinfo.Labels lacks while skinfo.Labels is nil.
MergeLabelsPanics(metalabels, labels) ==
    metalabels.isnil /\ DOMAIN labels.kv # {}

\* snapshots.Kind(uint8(kind))
KindOf(kind) == kind % 256

\* readOverlaySnapshotKey: merges the metadata.db bucket into skinfo.
readOverlaySnapshotKey(skinfo, bkt) ==
    [panic |-> MergeLabelsPanics(skinfo.Labels, bkt.labels),
     skinfo |-> [skinfo EXCEPT
         !.CreatedAt = bkt.createdat,
         !.Parent = MergeParent(skinfo.Parent, bkt.parent),
         !.ID = bkt.id,
         !.Kind = KindOf(bkt.kind),
         !.Size = bkt.size,
         !.Labels = IF skinfo.Labels.isnil /\ DOMAIN bkt.labels.kv = {}
                    THEN skinfo.Labels
                    ELSE MapLabels(MergeLabels(skinfo.Labels, bkt.labels))]]

\* if s.sdb != nil { ... getOverlaySnapshotBucket(otx, skinfo.Name) ... }
ReadsOverlay(sdbopen, sdb, name) ==
    sdbopen /\ getOverlaySnapshotBucket(sdb, name).exists

\* The body of the inner ForEach of snapshotStore.List for key k.
ListKey(sdbopen, sdb, k) ==
    LET skinfo == readMetaSnapshotKey(SnapshotKeyInfo(k), metaDB[k]) IN
    IF ReadsOverlay(sdbopen, sdb, skinfo.Name)
    THEN readOverlaySnapshotKey(skinfo,
             getOverlaySnapshotBucket(sdb, skinfo.Name))
    ELSE [panic |-> FALSE, skinfo |-> skinfo]

\* snapshotStore.List: the ForEach over the key buckets, in key order,
\* from key k on.
RECURSIVE List(_, _, _, _)
List(sdbopen, sdb, k, skinfos) ==
    IF k > NumKeys THEN [panic |-> FALSE, skinfos |-> skinfos]
    ELSE IF ~metaDB[k].exists THEN List(sdbopen, sdb, k + 1, skinfos)
    ELSE IF ListKey(sdbopen, sdb, k).panic
         THEN [panic |-> TRUE, skinfos |-> <<>>]
         ELSE List(sdbopen, sdb, k + 1,
                   Append(skinfos, ListKey(sdbopen, sdb, k).skinfo))

\* metadata.db contents in which every bucket holds the same id.
UniformSdbs ==
    {[n \in Names |->
         IF n \in present THEN OverlayBucket(i, 2, 0, EmptyKey, NilLabels)
         ELSE NoOverlayBucket] :
     present \in SUBSET Names, i \in 1 .. MaxId}

\* explorer.ListSnapshots: opens metadata.db, lists the namespace; sdbs are
\* the metadata.db contents the call may find, enumerated for the names it
\* looks up (the names of the key buckets of meta.db).
ListSnapshots(sdbs) ==
    /\ pc = "idle"
    /\ backend = "containerd"
    /\ \E sdb \in (IF snapshotOpenable
                    THEN {d \in sdbs : \A n \in Names :
                             d[n].exists => \E k \in Keys :
                                 metaDB[k].exists /\ metaDB[k].name = n}
                    ELSE {NoSdb}) :
         LET l == List(snapshotOpenable, sdb, 1, <<>>) IN
         ret' = [NoRet EXCEPT !.op = "ListSnapshots",
                     !.sdbOpen = snapshotOpenable, !.sdb = sdb,
                     !.panic = l.panic,
                     !.err = IF l.panic THEN "panic" ELSE "nil",
                     !.list = l.skinfos]
    /\ pc' = "done"
    /\ UNCHANGED <<host, disk, backend, metaDB, snapshotOpenable, ctr, mountpoint, ssk, snapshotkeys>>

\* ---------------------------------------------------------------- runtime state (cgroup v2)
\* File contents are sequences of tokens: the words "populated", "frozen" and
\* "other", the characters " ", "-", "x", the digits, and the newline "\n".
Digits == {"0", "1", "2"}

DigitValue(c) == CASE c = "0" -> 0 [] c = "1" -> 1 [] c = "2" -> 2

RECURSIVE DecimalValue(_)
DecimalValue(s) ==
    IF s = <<>> THEN 0
    ELSE DecimalValue(SubSeq(s, 1, Len(s) - 1)) * 10 + DigitValue(s[Len(s)])

IsDigits(s) == s # <<>> /\ \A i \in DOMAIN s : s[i] \in Digits

\* strconv.Atoi: an optional sign and decimal digits, or an error.
Atoi(s) ==
    IF IsDigits(s) THEN [ok |-> TRUE, n |-> DecimalValue(s)]
    ELSE IF s # <<>> /\ s[1] \in {"-", "+"} /\ IsDigits(Tail(s))
         THEN [ok |-> TRUE,
               n |-> IF s[1] = "-" THEN 0 - DecimalValue(Tail(s))
                     ELSE DecimalValue(Tail(s))]
    ELSE [ok |-> FALSE, n |-> 0]

\* strings.Split(text, "\n"): the lines between newlines, at least one.
RECURSIVE SplitLines(_, _)
SplitLines(text, line) ==
    IF text = <<>> THEN <<line>>
    ELSE IF text[1] = "\n" THEN <<line>> \o SplitLines(Tail(text), <<>>)
    ELSE SplitLines(Tail(text), Append(line, text[1]))

\* strings.Contains(line, key + " ")
ContainsKey(line, key) ==
    \E i \in 1 .. Len(line) - 1 : line[i] = key /\ line[i + 1] = " "

\* strings.Replace(line, key + " ", "", -1)
RECURSIVE RemoveKey(_, _)
RemoveKey(line, key) ==
    IF Len(line) < 2 THEN line
    ELSE IF line[1] = key /\ line[2] = " "
         THEN RemoveKey(SubSeq(line, 3, Len(line)), key)
    ELSE <<line[1]>> \o RemoveKey(Tail(line), key)

\* strings.TrimSpace
RECURSIVE TrimSpace(_)
TrimSpace(s) ==
    IF s = <<>> THEN s
    ELSE IF s[1] = " " THEN TrimSpace(Tail(s))
    ELSE IF s[Len(s)] = " " THEN TrimSpace(SubSeq(s, 1, Len(s) - 1))
    ELSE s

\* The value a line sets for a key: strconv.Atoi of the trimmed rest, -1 when
\* it is not a number.
EventValue(line, key) ==
    LET val == Atoi(TrimSpace(RemoveKey(line, key)))
    IN  IF val.ok THEN val.n ELSE 0 - 1

\* The loop of ReadCgroupEvents over the lines.
RECURSIVE ReadEventLines(_, _, _)
ReadEventLines(lines, populated, frozen) ==
    IF lines = <<>> THEN [populated |-> populated, frozen |-> frozen]
    ELSE LET line == lines[1]
             p == IF ContainsKey(line, "populated")
                  THEN EventValue(line, "populated") ELSE populated
             f == IF ContainsKey(line, "frozen")
                  THEN EventValue(line, "frozen") ELSE frozen
         IN  ReadEventLines(Tail(lines), p, f)

NoFile == [exists |-> FALSE, text |-> <<>>]
File(text) == [exists |-> TRUE, text |-> text]

\* A cgroup directory that is not in the image.
NoCgroupDir == [exists |-> FALSE, events |-> NoFile, procs |-> NoFile]
CgroupDir(events, procs) == [exists |-> TRUE, events |-> events, procs |-> procs]

\* ReadCgroupEvents
ReadCgroupEvents(dir) ==
    IF ~dir.events.exists
    THEN [populated |-> 0 - 1, frozen |-> 0 - 1, err |-> TRUE]
    ELSE LET r == ReadEventLines(SplitLines(dir.events.text, <<>>), 0 - 1, 0 - 1)
         IN  [populated |-> r.populated, frozen |-> r.frozen, err |-> FALSE]

\* GetTaskStatus: the status on a read error.
StatusOnReadErrorEmpty == ""
StatusOnReadError == "UNKNOWN"

\* GetTaskStatus: the status for PAUSED requires frozen = 1.
IsPausedIgnoresPopulated(populated, frozen) == frozen = 1
IsPaused(populated, frozen) == populated = 1 /\ frozen = 1

\* GetTaskStatus
GetTaskStatus(dir) ==
    LET r == ReadCgroupEvents(dir)
    IN  IF r.err THEN [status |-> StatusOnReadError, err |-> TRUE]
        ELSE IF r.populated = 0 /\ r.frozen = 0
             THEN [status |-> "STOPPED", err |-> FALSE]
        ELSE IF r.populated = 1 /\ r.frozen = 0
             THEN [status |-> "RUNNING", err |-> FALSE]
        ELSE IF IsPaused(r.populated, r.frozen)
             THEN [status |-> "PAUSED", err |-> FALSE]
        ELSE [status |-> "UNKNOWN", err |-> TRUE]

\* GetTaskPID: the line the pid is parsed from.
PIDLineLast(lines) == lines[Len(lines)]
PIDLine(lines) == lines[1]

\* GetTaskPID
GetTaskPID(dir) ==
    IF ~dir.procs.exists THEN 0 - 1
    ELSE LET pid == Atoi(PIDLine(SplitLines(dir.procs.text, <<>>)))
         IN  IF pid.ok THEN pid.n ELSE 0 - 1

\* The lines of a cgroup.events file: each key at most once, in any order.
EventKeys == {"populated", "frozen", "other"}
EventValues == {<<"0">>, <<"1">>, <<"2">>, <<"x">>, <<>>, <<"1", "0">>}
EventOrders ==
    {ks \in UNION {[1 .. n -> EventKeys] : n \in 0 .. 3} :
        \A i, j \in DOMAIN ks : i # j => ks[i] # ks[j]}

RECURSIVE EventText(_, _)
EventText(ks, vs) ==
    IF ks = <<>> THEN <<>>
    ELSE <<ks[1], " ">> \o vs[1] \o <<"\n">> \o EventText(Tail(ks), Tail(vs))

EventTexts ==
    UNION {{EventText(ks, vs) : vs \in [DOMAIN ks -> EventValues]} : ks \in EventOrders}

\* The contents of a cgroup.procs file: a first line and what follows it.
ProcsFirstLines ==
    {<<"1">>, <<"2", "1">>, <<"-", "1">>, <<"x">>, <<>>, <<"1", "x">>, <<"1", " ">>}
ProcsRests == {<<>>, <<"\n">>, <<"\n", "2", "\n">>, <<"\n", "x", "\n">>}
ProcsTexts == {first \o rest : first \in ProcsFirstLines, rest \in ProcsRests}

RunningEvents == File(<<"populated", " ", "1", "\n", "frozen", " ", "0", "\n">>)
PausedEvents == File(<<"frozen", " ", "1", "\n", "populated", " ", "1", "\n">>)
InitProcs == File(<<"2", "1", "\n", "2", "\n">>)

\* The cgroup directories of the tasks of a listing.
TaskDirs ==
    {NoCgroupDir, CgroupDir(RunningEvents, InitProcs),
     CgroupDir(PausedEvents, InitProcs), CgroupDir(NoFile, NoFile)}

CgroupDirs ==
    {CgroupDir(File(t), InitProcs) : t \in EventTexts}
        \cup {CgroupDir(RunningEvents, File(t)) : t \in ProcsTexts}
        \cup TaskDirs

\* A call of GetTaskStatus on the cgroup directory of task i.
CallGetTaskStatus(i) ==
    /\ pc = "idle"
    /\ LET r == GetTaskStatus(cgroup[i])
       IN  ret' = [op |-> "GetTaskStatus", task |-> i,
                   status |-> r.status, err |-> r.err]
    /\ pc' = "done"
    /\ UNCHANGED <<host, disk, backend, metaDB, snapshotOpenable, ctr, mountpoint, ssk, snapshotkeys>>

\* A call of GetTaskPID on the cgroup directory of task i.
CallGetTaskPID(i) ==
    /\ pc = "idle"
    /\ ret' = [op |-> "GetTaskPID", task |-> i, pid |-> GetTaskPID(cgroup[i])]
    /\ pc' = "done"
    /\ UNCHANGED <<host, disk, backend, metaDB, snapshotOpenable, ctr, mountpoint, ssk, snapshotkeys>>

\* explorer.ListTasks of the containerd explorer: one Task per container with
\* the status and the PID read from its cgroup directory; a status that
\* cannot be read is reported as the value GetTaskStatus returns.
ListTasks ==
    /\ pc = "idle"
    /\ backend = "containerd"
    /\ ret' = [op |-> "ListTasks", err |-> "nil",
               tasks |-> [i \in DOMAIN cgroup |->
                             [Status |-> GetTaskStatus(cgroup[i]).status,
                              PID |-> GetTaskPID(cgroup[i])]]]
    /\ pc' = "done"
    /\ UNCHANGED <<host, disk, backend, metaDB, snapshotOpenable, ctr, mountpoint, ssk, snapshotkeys>>

\* The explorer before a command runs.
Fresh ==
    /\ pc = "idle"
    /\ ctr = MissingContainer
    /\ mountpoint = ""
    /\ ssk = EmptyKey
    /\ snapshotkeys = <<>>
    /\ ret = NoRet
    /\ NoSessions

NoSnapshots ==
    /\ metaDB = [k \in Keys |-> NoMetaBucket]
    /\ snapshotOpenable = FALSE

InitRuntime ==
    /\ backend = "containerd"
    /\ NoSnapshots
    /\ Fresh
    /\ cgroup \in {<<d>> : d \in CgroupDirs} \cup [1 .. MaxTasks -> TaskDirs]
    /\ store = <<>>
    /\ repositories = <<>>
    /\ sc = [isnil |-> TRUE]
    /\ nss = NoMdb

NextRuntime ==
    \/ \E i \in DOMAIN cgroup : CallGetTaskStatus(i)
    \/ \E i \in DOMAIN cgroup : CallGetTaskPID(i)
    \/ ListTasks

SpecRuntime == InitRuntime /\ [][NextRuntime]_vars

\* ---------------------------------------------------------------- support container policy
\* Strings are sequences of characters or words.
\* strings.ToLower
LowerChar(c) == CASE c = "A" -> "a" [] c = "B" -> "b" [] OTHER -> c
ToLower(s) == [i \in DOMAIN s |-> LowerChar(s[i])]

\* strings.Contains
ContainsExact(s, sub) == s = sub
Contains(s, sub) ==
    \E i \in 1 .. Len(s) - Len(sub) + 1 : SubSeq(s, i, i + Len(sub) - 1) = sub

\* strings.EqualFold
EqualFold(s, t) == ToLower(s) = ToLower(t)

\* A nil *SupportContainer and a loaded one.
NilPolicy == [isnil |-> TRUE]
Policy(names, images, labels) ==
    [isnil |-> FALSE, ContainerNames |-> names, ImageNames |-> images,
     Labels |-> labels]

\* SupportContainer.SupportContainerImage
SupportContainerImage(policy, image) ==
    IF policy.isnil THEN FALSE
    ELSE \E i \in DOMAIN policy.ImageNames :
            Contains(ToLower(image), ToLower(policy.ImageNames[i]))

\* SupportContainer.SupportContainerName
SupportContainerName(policy, name) ==
    IF policy.isnil THEN FALSE
    ELSE \E i \in DOMAIN policy.ContainerNames :
            Contains(ToLower(name), ToLower(policy.ContainerNames[i]))

\* SupportContainer.SupportContainerLabel
SupportContainerLabel(policy, label) ==
    IF policy.isnil THEN FALSE
    ELSE \E i \in DOMAIN policy.Labels : EqualFold(policy.Labels[i], label)

\* fmt.Sprintf("%s=%s", k, v)
LabelString(k, v) == k \o <<"=">> \o v

\* SupportContainer.IsSupportContainer: the labels are a function from the
\* label keys to their values.
IsSupportContainer(policy, c) ==
    \/ SupportContainerImage(policy, c.ImageBase)
    \/ SupportContainerName(policy, c.Hostname)
    \/ \E k \in DOMAIN c.Labels :
          SupportContainerLabel(policy, LabelString(k, c.Labels[k]))

\* The strings of the policies and containers of the model.
Strs == {<<>>, <<"a">>, <<"A">>, <<"b">>, <<"a", "b">>, <<"A", "b">>, <<"b", "a">>}
LabelStrs == {<<"a", "=", "b">>, <<"A", "=", "B">>, <<"a", "=">>, <<"b", "=", "a">>}
NoLabels == [k \in {} |-> <<>>]
CtrLabels ==
    {NoLabels, [k \in {<<"a">>} |-> <<"b">>], [k \in {<<"a">>} |-> <<"B">>],
     [k \in {<<"a">>, <<"b">>} |-> IF k = <<"a">> THEN <<>> ELSE <<"a">>]}

Policies ==
    {NilPolicy, Policy(<<>>, <<>>, <<>>)}
        \cup {Policy(<<s>>, <<>>, <<>>) : s \in Strs \ {<<>>}}
        \cup {Policy(<<>>, <<s>>, <<>>) : s \in Strs \ {<<>>}}
        \cup {Policy(<<>>, <<>>, <<s>>) : s \in LabelStrs}
        \cup {Policy(<<>>, <<<<"b", "b">>, <<"a", "B">>>>, <<<<"b", "=">>, <<"B", "=", "A">>>>)}

\* A call of IsSupportContainer on container record i of the store.
CallIsSupportContainer(i) ==
    /\ pc = "idle"
    /\ ret' = [op |-> "IsSupportContainer", ctr |-> i,
               support |-> IsSupportContainer(sc, store[i])]
    /\ pc' = "done"
    /\ UNCHANGED <<host, disk, backend, metaDB, snapshotOpenable, ctr, mountpoint, ssk, snapshotkeys>>

InitSupport ==
    /\ backend = "docker"
    /\ NoSnapshots
    /\ Fresh
    /\ cgroup = <<>>
    /\ store \in {<<[ImageBase |-> i, Hostname |-> h, Labels |-> l]>> :
                     i \in Strs, h \in Strs, l \in CtrLabels}
    /\ repositories = <<>>
    /\ sc \in Policies
    /\ nss = NoMdb

NextSupport == \E i \in DOMAIN store : CallIsSupportContainer(i)

SpecSupport == InitSupport /\ [][NextSupport]_vars

\* ---------------------------------------------------------------- Docker explorer: containers
\* time.Time at the resolution of the layout "2006-01-02T15:04:05Z": the
\* seconds since the zero time.
ZeroTime == 0
notStarted == "0001-01-01T00:00:00Z"
FormatTime(t) == IF t = ZeroTime THEN "0001-01-01T00:00:00Z" ELSE "later"

\* The first branch of the status chain.
IsCreatedNever(state) == FALSE
IsCreated(state) == FormatTime(state.StartedAt) = notStarted

\* The status chain of convertToContainerExplorerContainer (docker).
DockerStatus(state) ==
    IF IsCreated(state) THEN "CREATED"
    ELSE IF state.Running /\ state.Paused THEN "PAUSED"
    ELSE IF state.Running /\ ~state.Paused THEN "RUNNING"
    ELSE IF ~state.Running /\ state.Paused THEN "UNKNOWN"
    ELSE IF ~state.Running /\ ~state.Paused THEN "STOPPED"
    ELSE ""

\* convertToContainerExplorerContainer (docker): the labels of the config
\* are not copied into the record.
DockerConvert(config) ==
    [ID |-> config.ID, Image |-> config.Image, ImageBase |-> <<>>,
     Hostname |-> config.Hostname, Labels |-> NoLabels,
     Running |-> config.State.Running, Status |-> DockerStatus(config.State),
     SupportContainer |-> FALSE]

\* imageBasename: the name up to the first "@" (the names of the model hold
\* no quote characters to remove).
imageBasename(name) ==
    IF Contains(name, <<"@">>)
    THEN SubSeq(name, 1, (CHOOSE i \in DOMAIN name :
                            /\ name[i] = "@"
                            /\ \A j \in 1 .. i - 1 : name[j] # "@") - 1)
    ELSE name

\* repositories.json: names (name:tag or name@digest) mapped to image ids.
NoRepositories == [exists |-> FALSE, entries |-> [n \in {} |-> <<>>]]
Repositories(entries) == [exists |-> TRUE, entries |-> entries]

\* GetRepositories: the names that are recorded for their image id.
RepositoryNameAny(k) == TRUE
RepositoryNameWanted(k) == ~Contains(k, <<"@">>)

\* GetRepositories: the loop over the entries in the order the map yields
\* them.
RECURSIVE RepositoriesLoop(_, _, _)
RepositoriesLoop(entries, order, repos) ==
    IF order = <<>> THEN repos
    ELSE LET k == order[1]
             v == entries[k]
             next == IF RepositoryNameWanted(k)
                     THEN [d \in DOMAIN repos \cup {v} |->
                              IF d = v THEN k ELSE repos[d]]
                     ELSE repos
         IN  RepositoriesLoop(entries, Tail(order), next)

\* GetRepositories: nil when the repositories file is missing.
GetRepositories(order) ==
    IF ~repositories.exists THEN [isnil |-> TRUE, map |-> [d \in {} |-> <<>>]]
    ELSE [isnil |-> FALSE,
          map |-> RepositoriesLoop(repositories.entries, order, [d \in {} |-> <<>>])]

\* The orders in which a range over the entries may visit them.
Orders(entries) ==
    {q \in [1 .. Cardinality(DOMAIN entries) -> DOMAIN entries] :
        \A i, j \in DOMAIN q : i # j => q[i] # q[j]}

\* GetContainer fails for a container without a readable config.v2.json.
NoConfig == [valid |-> FALSE]
ConfigFile(id, image, hostname, labels, state) ==
    [valid |-> TRUE, ID |-> id, Image |-> image, Hostname |-> hostname,
     Labels |-> labels, State |-> state]

\* GetCEContainer as a function of the config and the image repository.
CEContainer(config, imagerepo) ==
    LET cectr == DockerConvert(config)
        image == IF ~imagerepo.isnil /\ cectr.Image \in DOMAIN imagerepo.map
                 THEN imagerepo.map[cectr.Image] ELSE cectr.Image
        named == [cectr EXCEPT !.Image = image, !.ImageBase = imageBasename(image)]
    IN  [named EXCEPT !.SupportContainer = IsSupportContainer(sc, named)]

\* explorer.GetCEContainer
GetCEContainer(containerid, order) ==
    /\ pc = "idle"
    /\ backend = "docker"
    /\ containerid \in DOMAIN store
    /\ LET imagerepo == GetRepositories(order)
           config == store[containerid]
       IN  ret' = IF ~config.valid
                  THEN [op |-> "GetCEContainer", ctr |-> containerid,
                        err |-> "container config", imagerepo |-> imagerepo]
                  ELSE [op |-> "GetCEContainer", ctr |-> containerid,
                        err |-> "nil", imagerepo |-> imagerepo,
                        container |-> CEContainer(config, imagerepo)]
    /\ pc' = "done"
    /\ UNCHANGED <<host, disk, backend, metaDB, snapshotOpenable, ctr, mountpoint, ssk, snapshotkeys>>

RepoNames ==
    {<<"nginx", ":", "latest">>, <<"nginx", "@", "sha">>,
     <<"redis", ":", "6">>, <<"redis", "@", "sha">>}
ImageIDs == {<<"d1">>, <<"d2">>}
RepositoryFiles ==
    {NoRepositories}
        \cup UNION {{Repositories(f) : f \in [names -> ImageIDs]} :
                       names \in SUBSET RepoNames}

DockerStates ==
    [StartedAt : {ZeroTime, 1}, Running : BOOLEAN, Paused : BOOLEAN]

DockerConfigs ==
    {NoConfig}
        \cup {ConfigFile(1, i, <<"a">>, NoLabels, s) :
                 i \in ImageIDs \cup {<<"d3">>}, s \in DockerStates}

InitDocker ==
    /\ backend = "docker"
    /\ NoSnapshots
    /\ Fresh
    /\ cgroup = <<>>
    /\ store \in {<<c>> : c \in DockerConfigs}
    /\ repositories \in RepositoryFiles
    /\ sc \in {NilPolicy, Policy(<<>>, <<<<"nginx">>>>, <<>>)}
    /\ nss = NoMdb

NextDocker ==
    \E c \in DOMAIN store, order \in Orders(repositories.entries) :
        GetCEContainer(c, order)

SpecDocker == InitDocker /\ [][NextDocker]_vars

\* ---------------------------------------------------------------- containerd explorer: containers
\* strings.Split(name, sep)[0]: the tokens before the first separator.
BeforeFirst(name, sep) ==
    IF \E i \in DOMAIN name : name[i] = sep
    THEN SubSeq(name, 1, (CHOOSE i \in DOMAIN name :
                            /\ name[i] = sep
                            /\ \A j \in 1 .. i - 1 : name[j] # sep) - 1)
    ELSE name

\* strings.Split(kv, "=")[1]: the tokens between the first "=" and the next.
SecondField(kv) ==
    LET first == CHOOSE i \in DOMAIN kv :
                     kv[i] = "=" /\ \A j \in 1 .. i - 1 : kv[j] # "="
    IN  BeforeFirst(SubSeq(kv, first + 1, Len(kv)), "=")

\* explorers.KubernetesSupportContainers (two of its image names).
KubernetesSupportContainers ==
    {<<"gke.gcr.io/fluent-bit">>, <<"gke.gcr.io/event-exporter">>}

\* isKubernetesSupportContainer
isKubernetesSupportContainer(c) ==
    LET untagged == IF Contains(c.Image, <<"@">>)
                    THEN BeforeFirst(c.Image, "@") ELSE c.Image
        imagebase == IF Contains(untagged, <<":">>)
                     THEN BeforeFirst(untagged, ":") ELSE untagged
    IN  imagebase \in KubernetesSupportContainers

\* containers.Container of meta.db: ctr.Spec is nil, or JSON with a hostname
\* and a process section that may be missing.
NoSpec == [isnil |-> TRUE]
NoProcess == [isnil |-> TRUE]
Process(env) == [isnil |-> FALSE, Env |-> env]
RuntimeSpec(hostname, process) ==
    [isnil |-> FALSE, Hostname |-> hostname, Process |-> process]
Container(id, image, labels, spec) ==
    [ID |-> id, Image |-> image, Labels |-> labels, Spec |-> spec]

\* strings.HasPrefix(kv, "HOSTNAME=")
HasHostnamePrefix(kv) == Len(kv) >= 2 /\ kv[1] = "HOSTNAME" /\ kv[2] = "="

\* The loop over v.Process.Env: the first HOSTNAME= entry sets the hostname.
RECURSIVE EnvHostname(_)
EnvHostname(env) ==
    IF env = <<>> THEN <<>>
    ELSE IF HasHostnamePrefix(env[1]) THEN TrimSpace(SecondField(env[1]))
    ELSE EnvHostname(Tail(env))

\* convertToContainerExplorerContainer dereferences v.Process when the spec
\* has no hostname.
ConvertPanics(c) ==
    /\ ~c.Spec.isnil
    /\ c.Spec.Hostname = <<>>
    /\ c.Spec.Process.isnil

\* convertToContainerExplorerContainer (containerd): the hostname.
ConvertHostname(c) ==
    IF c.Spec.isnil THEN <<>>
    ELSE IF c.Spec.Hostname # <<>> THEN c.Spec.Hostname
    ELSE EnvHostname(c.Spec.Process.Env)

\* convertToContainerExplorerContainer (containerd)
convertToContainerExplorerContainer(ns, c) ==
    [Namespace |-> ns, Hostname |-> ConvertHostname(c),
     SupportContainer |-> isKubernetesSupportContainer(c),
     ID |-> c.ID, Image |-> c.Image, Labels |-> c.Labels]

\* The container store of the snapshot chains: container c, without a
\* runtime spec.
ChainStore ==
    [c \in Keys |-> Container(c, <<"nginx", ":", "1">>, NoLabels, NoSpec)]

\* The image of the snapshot chains besides the two databases.
ChainDisk ==
    /\ cgroup = <<>>
    /\ store = ChainStore
    /\ repositories = <<>>
    /\ sc = NilPolicy
    /\ nss = NoMdb

\* ---------------------------------------------------------------- other list operations
\* metadata.NewNamespaceStore(tx).List: the namespaces of meta.db.
Namespaces == <<"default">>

\* explorer.ListNamespaces (docker): the namespaces of meta.db when it was
\* opened, and nil otherwise.
DockerNamespaces == IF ~nss.isnil THEN nss.list ELSE <<>>

\* explorer.ListNamespaces
ListNamespaces ==
    /\ pc = "idle"
    /\ ret' = [NoRet EXCEPT !.op = "ListNamespaces",
                   !.items = IF backend = "containerd" THEN Namespaces
                             ELSE DockerNamespaces]
    /\ pc' = "done"
    /\ UNCHANGED <<host, disk, backend, metaDB, snapshotOpenable, ctr, mountpoint, ssk, snapshotkeys>>

\* explorer.ListContainers: the converted containers of the namespace, in
\* id order; the conversion of one record may crash the command.
ContainerList ==
    [i \in DOMAIN store |-> convertToContainerExplorerContainer("default", store[i])]

ListContainers ==
    /\ pc = "idle"
    /\ backend = "containerd"
    /\ ret' = IF \E i \in DOMAIN store : ConvertPanics(store[i])
              THEN [NoRet EXCEPT !.op = "ListContainers", !.err = "panic",
                        !.panic = TRUE]
              ELSE [NoRet EXCEPT !.op = "ListContainers", !.items = ContainerList]
    /\ pc' = "done"
    /\ UNCHANGED <<host, disk, backend, metaDB, snapshotOpenable, ctr, mountpoint, ssk, snapshotkeys>>

\* explorer.ListImages / explorer.ListContent: read meta.db only.
ListImages ==
    /\ pc = "idle"
    /\ backend = "containerd"
    /\ ret' = [NoRet EXCEPT !.op = "ListImages"]
    /\ pc' = "done"
    /\ UNCHANGED <<host, disk, backend, metaDB, snapshotOpenable, ctr, mountpoint, ssk, snapshotkeys>>

ListContent ==
    /\ pc = "idle"
    /\ backend = "containerd"
    /\ ret' = [NoRet EXCEPT !.op = "ListContent"]
    /\ pc' = "done"
    /\ UNCHANGED <<host, disk, backend, metaDB, snapshotOpenable, ctr, mountpoint, ssk, snapshotkeys>>

\* The result of the containerd InfoContainer for a stored container: the
\* decoded spec or the container with its spec, and nil for a container
\* without a stored spec.
InfoResult(c, spec) ==
    IF ~c.Spec.isnil THEN (IF spec THEN "spec" ELSE "container") ELSE "nil"

\* explorer.InfoContainer: store.Get fails for an unknown id; the Docker
\* explorer returns nil, nil.
InfoContainer(containerid, spec) ==
    /\ pc = "idle"
    /\ ret' = IF backend = "docker"
              THEN [NoRet EXCEPT !.op = "InfoContainer", !.ctr = containerid,
                        !.specOnly = spec]
              ELSE IF containerid \notin DOMAIN store
              THEN [NoRet EXCEPT !.op = "InfoContainer", !.ctr = containerid,
                        !.specOnly = spec, !.err = "not found"]
              ELSE [NoRet EXCEPT !.op = "InfoContainer", !.ctr = containerid,
                        !.specOnly = spec,
                        !.info = InfoResult(store[containerid], spec)]
    /\ pc' = "done"
    /\ UNCHANGED <<host, disk, backend, metaDB, snapshotOpenable, ctr, mountpoint, ssk, snapshotkeys>>

\* ---------------------------------------------------------------- commands over all containers
\* explorer.ListContainers (docker): GetCEContainer of every container
\* directory; the first error ends the listing.
DockerContainerList(order) ==
    IF \E i \in DOMAIN store : ~store[i].valid
    THEN [err |-> "container config", items |-> <<>>]
    ELSE [err |-> "nil",
          items |-> [i \in DOMAIN store |->
                        CEContainer(store[i], GetRepositories(order))]]

\* A label filter is a comma separated list; its items are token sequences
\* such as <<"a", "=", "x">>.
HasEquals(f) == \E i \in DOMAIN f : f[i] = "="

\* listContainers: the test of one filter item against a container.
ItemExcludes(labels, f) ==
    /\ HasEquals(f)
    /\ LET key == BeforeFirst(f, "=")
           value == SecondField(f)
       IN  key \notin DOMAIN labels \/ labels[key] # value

\* listContainers: include stays true when no filter item excludes.
Include(labels, filters) ==
    \A i \in DOMAIN filters : ~ItemExcludes(labels, filters[i])

RECURSIVE FilterContainers(_, _)
FilterContainers(containers, filters) ==
    IF containers = <<>> THEN <<>>
    ELSE (IF Include(containers[1].Labels, filters) THEN <<containers[1]>> ELSE <<>>)
             \o FilterContainers(Tail(containers), filters)

\* The list containers command: ListContainers of the explorer, then the
\* label filter.
listContainers(filters, order) ==
    /\ pc = "idle"
    /\ LET dlist == DockerContainerList(order)
       IN  ret' =
             IF backend = "containerd" /\ \E i \in DOMAIN store : ConvertPanics(store[i])
             THEN [op |-> "listContainers", filters |-> filters, err |-> "panic",
                   panic |-> TRUE, listed |-> <<>>]
             ELSE IF backend = "docker" /\ dlist.err # "nil"
             THEN [op |-> "listContainers", filters |-> filters, err |-> dlist.err,
                   panic |-> FALSE, listed |-> <<>>]
             ELSE [op |-> "listContainers", filters |-> filters, err |-> "nil",
                   panic |-> FALSE,
                   listed |-> FilterContainers(
                                 IF backend = "containerd" THEN ContainerList
                                 ELSE dlist.items,
                                 IF filters = <<>> THEN <<>> ELSE filters)]
    /\ pc' = "done"
    /\ UNCHANGED <<host, disk, backend, metaDB, snapshotOpenable, ctr, mountpoint, ssk, snapshotkeys>>

\* strings.Split(filter, "="): the number of parts.
NumParts(f) == Cardinality({i \in DOMAIN f : f[i] = "="}) + 1

\* getFilterMap: the items with exactly two parts, later items overriding.
RECURSIVE getFilterMap(_)
getFilterMap(filters) ==
    IF filters = <<>> THEN [k \in {} |-> <<>>]
    ELSE LET f == filters[Len(filters)]
             rest == getFilterMap(SubSeq(filters, 1, Len(filters) - 1))
         IN  IF NumParts(f) = 2
             THEN [k \in DOMAIN rest \cup {TrimSpace(BeforeFirst(f, "="))} |->
                      IF k = TrimSpace(BeforeFirst(f, "="))
                      THEN TrimSpace(SecondField(f)) ELSE rest[k]]
             ELSE rest

\* utils.IgnoreContainer
IgnoreContainer(container, filter) ==
    \E k \in DOMAIN filter :
        k \in DOMAIN container.Labels /\ container.Labels[k] = filter[k]

\* A call of IgnoreContainer on the record of container i of the containerd
\* store, with the map of a filter flag.
CallIgnoreContainer(i, filters) ==
    /\ pc = "idle"
    /\ backend = "containerd"
    /\ i \in DOMAIN store
    /\ ~ConvertPanics(store[i])
    /\ ret' = [op |-> "IgnoreContainer", filters |-> filters, err |-> "nil",
               panic |-> FALSE, ctr |-> i,
               ignored |-> IgnoreContainer(ContainerList[i], getFilterMap(filters))]
    /\ pc' = "done"
    /\ UNCHANGED <<host, disk, backend, metaDB, snapshotOpenable, ctr, mountpoint, ssk, snapshotkeys>>

\* ExportAllContainers: the loop over the containers of one namespace.
RECURSIVE ExportLoop(_, _, _)
ExportLoop(containers, filter, exportSupportContainers) ==
    IF containers = <<>> THEN <<>>
    ELSE LET c == containers[1]
             rest == ExportLoop(Tail(containers), filter, exportSupportContainers)
         IN  IF ~exportSupportContainers /\ c.SupportContainer THEN rest
             ELSE IF IgnoreContainer(c, filter) THEN rest
             ELSE <<c.ID>> \o rest

RECURSIVE ExportNamespaces(_, _, _, _)
ExportNamespaces(namespaces, dlist, filter, exportSupportContainers) ==
    IF namespaces = <<>> THEN <<>>
    ELSE (IF dlist.err # "nil" THEN <<>>
          ELSE ExportLoop(dlist.items, filter, exportSupportContainers))
             \o ExportNamespaces(Tail(namespaces), dlist, filter, exportSupportContainers)

\* The export-all command on the docker explorer: getFilterMap, then
\* ExportAllContainers; exported lists the ExportContainer calls.
ExportAllContainers(filters, exportSupportContainers, order) ==
    /\ pc = "idle"
    /\ backend = "docker"
    /\ ret' = [op |-> "ExportAllContainers", filters |-> filters, err |-> "nil",
               panic |-> FALSE, exportSupport |-> exportSupportContainers,
               listErr |-> DockerContainerList(order).err,
               exported |-> ExportNamespaces(DockerNamespaces, DockerContainerList(order),
                                             getFilterMap(filters),
                                             exportSupportContainers)]
    /\ pc' = "done"
    /\ UNCHANGED <<host, disk, backend, metaDB, snapshotOpenable, ctr, mountpoint, ssk, snapshotkeys>>

\* MountAllContainers (containerd): the loop. mkdirok and mountok give, per
\* position of the list, the outcome of os.MkdirAll and of MountContainer;
\* a failed MkdirAll is logged only, the first failed MountContainer is
\* returned.
RECURSIVE MountAllLoop(_, _, _, _, _, _)
MountAllLoop(ctrs, i, mp, skipsupportcontainers, mountok, res) ==
    IF i > Len(ctrs) THEN res
    ELSE IF skipsupportcontainers /\ ctrs[i].SupportContainer
    THEN MountAllLoop(ctrs, i + 1, mp, skipsupportcontainers, mountok, res)
    ELSE LET call == [ID |-> ctrs[i].ID, mountpoint |-> <<mp, ctrs[i].ID>>]
             after == [res EXCEPT !.mounts = Append(@, call)]
         IN  IF ~mountok[i] THEN [after EXCEPT !.err = "mount"]
             ELSE MountAllLoop(ctrs, i + 1, mp, skipsupportcontainers, mountok, after)

\* explorer.MountAllContainers (containerd)
MountAllContainers(mp, skipsupportcontainers, mkdirok, mountok) ==
    /\ pc = "idle"
    /\ backend = "containerd"
    /\ ret' = IF \E i \in DOMAIN store : ConvertPanics(store[i])
              THEN [op |-> "MountAllContainers", err |-> "panic", panic |-> TRUE,
                    mp |-> mp, skip |-> skipsupportcontainers,
                    mkdirok |-> mkdirok, mountok |-> mountok, mounts |-> <<>>]
              ELSE MountAllLoop(ContainerList, 1, mp, skipsupportcontainers, mountok,
                       [op |-> "MountAllContainers", err |-> "nil", panic |-> FALSE,
                        mp |-> mp, skip |-> skipsupportcontainers,
                        mkdirok |-> mkdirok, mountok |-> mountok, mounts |-> <<>>])
    /\ pc' = "done"
    /\ UNCHANGED <<host, disk, backend, metaDB, snapshotOpenable, ctr, mountpoint, ssk, snapshotkeys>>

\* MountAllContainers (docker): the loop over the container ids. A
\* container whose details cannot be read, a skipped support container and
\* a failed MkdirAll go to the next id; a failed MountContainer is logged.
RECURSIVE DockerMountAllLoop(_, _, _, _, _, _)
DockerMountAllLoop(i, mp, skipsupportcontainers, mkdirok, imagerepo, res) ==
    IF i > Len(store) THEN res
    ELSE IF ~store[i].valid
    THEN DockerMountAllLoop(i + 1, mp, skipsupportcontainers, mkdirok, imagerepo, res)
    ELSE LET cecontainer == CEContainer(store[i], imagerepo)
         IN  IF skipsupportcontainers /\ cecontainer.SupportContainer
             THEN DockerMountAllLoop(i + 1, mp, skipsupportcontainers, mkdirok,
                                     imagerepo, res)
             ELSE IF ~mkdirok[i]
             THEN DockerMountAllLoop(i + 1, mp, skipsupportcontainers, mkdirok,
                                     imagerepo, res)
             ELSE DockerMountAllLoop(i + 1, mp, skipsupportcontainers, mkdirok, imagerepo,
                      [res EXCEPT !.mounts =
                          Append(@, [ID |-> i,
                                     mountpoint |-> <<mp, cecontainer.ID>>])])

\* explorer.MountAllContainers (docker)
DockerMountAllContainers(mp, skipsupportcontainers, mkdirok, mountok, order) ==
    /\ pc = "idle"
    /\ backend = "docker"
    /\ ret' = IF store = <<>>
              THEN [op |-> "MountAllContainers", err |-> "no container ID returned",
                    panic |-> FALSE, mp |-> mp, skip |-> skipsupportcontainers,
                    mkdirok |-> mkdirok, mountok |-> mountok, mounts |-> <<>>]
              ELSE DockerMountAllLoop(1, mp, skipsupportcontainers, mkdirok,
                       GetRepositories(order),
                       [op |-> "MountAllContainers", err |-> "nil", panic |-> FALSE,
                        mp |-> mp, skip |-> skipsupportcontainers,
                        mkdirok |-> mkdirok, mountok |-> mountok, mounts |-> <<>>])
    /\ pc' = "done"
    /\ UNCHANGED <<host, disk, backend, metaDB, snapshotOpenable, ctr, mountpoint, ssk, snapshotkeys>>

\* ---------------------------------------------------------------- Docker explorer: repeated listing
\* The orders in which a range over the ExposedPorts map of a config may
\* append its keys.
PortOrders(ports) ==
    {q \in [1 .. Cardinality(ports) -> ports] :
        \A i, j \in DOMAIN q : i # j => q[i] # q[j]}

\* explorer.ListContainers (docker), called up to two times by one process.
\* The package variable imagerepo is loaded by the first GetCEContainer
\* that finds it nil and kept; every conversion appends the exposed ports
\* in the order of its own range over the map.
DockerListContainers(order, ports) ==
    /\ pc \in {"idle", "listed"}
    /\ backend = "docker"
    /\ \A i \in DOMAIN store :
           store[i].valid => ports[i] \in PortOrders(store[i].ExposedPorts)
    /\ LET cache == IF pc = "idle" THEN [isnil |-> TRUE, map |-> [d \in {} |-> <<>>]]
                    ELSE ret.imagerepo
           imagerepo == IF cache.isnil /\ store # <<>> THEN GetRepositories(order)
                        ELSE cache
           result ==
               IF \E i \in DOMAIN store : ~store[i].valid
               THEN [err |-> "container config", items |-> <<>>]
               ELSE [err |-> "nil",
                     items |-> [i \in DOMAIN store |->
                                   [Container |-> CEContainer(store[i], imagerepo),
                                    ExposedPorts |-> ports[i]]]]
       IN  ret' = [op |-> "ListContainers", err |-> result.err, panic |-> FALSE,
                   imagerepo |-> imagerepo,
                   calls |-> (IF pc = "idle" THEN <<>> ELSE ret.calls) \o <<result>>]
    /\ pc' = IF pc = "idle" THEN "listed" ELSE "done"
    /\ UNCHANGED <<host, disk, backend, metaDB, snapshotOpenable, ctr, mountpoint, ssk, snapshotkeys>>

\* The container directories: none, or one or two with a config that exposes
\* no, one or two ports, or without a readable config.
PortedConfigs ==
    {NoConfig}
        \cup [valid : {TRUE}, ID : {1}, Image : ImageIDs, Hostname : {<<"a">>},
              Labels : {NoLabels}, ExposedPorts : SUBSET {"80/tcp", "443/tcp"},
              State : {[StartedAt |-> 1, Running |-> TRUE, Paused |-> FALSE]}]

InitRepeat ==
    /\ backend = "docker"
    /\ NoSnapshots
    /\ Fresh
    /\ cgroup = <<>>
    /\ store \in {<<>>} \cup {<<c>> : c \in PortedConfigs}
    /\ repositories \in RepositoryFiles
    /\ sc = NilPolicy
    /\ nss = NoMdb

NextRepeat ==
    \E order \in Orders(repositories.entries),
       ports \in [DOMAIN store -> UNION {PortOrders(p) : p \in SUBSET {"80/tcp", "443/tcp"}}] :
        DockerListContainers(order, ports)

SpecRepeat == InitRepeat /\ [][NextRepeat]_vars

\* ---------------------------------------------------------------- list subcommands
\* The global flags of the command line: --output and --output-file.
\* GlobalString of a name that is no flag is the empty string.
GlobalString(flags, name) == IF name \in DOMAIN flags THEN flags[name] ELSE ""

\* The flag name each list subcommand reads its output file from.
OutputFileFlag(sub) ==
    IF sub \in {"containers", "images"} THEN "output-file" ELSE "outputfile"

\* A list subcommand: explorerEnvironment, then the list operation of the
\* explorer, then the rendering. file is what the command writes to the
\* output file: nothing, the empty array or the listed data.
ListSubcommand(sub, flags, envok, listok) ==
    /\ pc = "idle"
    /\ LET output == GlobalString(flags, "output")
           outputfile == GlobalString(flags, OutputFileFlag(sub))
           onfailure == IF sub = "tasks" THEN outputfile # ""
                        ELSE output = "json" /\ outputfile # ""
           file == IF ~envok \/ ~listok
                   THEN (IF onfailure THEN "[]" ELSE "none")
                   ELSE IF sub # "tasks" /\ output \in {"json", "JSON"}
                           /\ outputfile # ""
                   THEN "data" ELSE "none"
       IN  ret' = [op |-> "list", sub |-> sub, flags |-> flags, err |-> "nil",
                   panic |-> FALSE, failed |-> ~envok \/ ~listok,
                   envok |-> envok, listok |-> listok, file |-> file]
    /\ pc' = "done"
    /\ UNCHANGED <<host, disk, backend, metaDB, snapshotOpenable, ctr, mountpoint, ssk, snapshotkeys>>

\* time.Unix(sec, nsec) of a stat timestamp, whose nanoseconds are within
\* one second: the instant with these seconds and nanoseconds.
Unix(sec, nsec) == [Sec |-> sec, Nsec |-> nsec]
ZeroInstant == [Sec |-> 0, Nsec |-> 0]

\* GetFileInfo: the timestamps of the record. info.ModTime() is the mtime
\* of the stat data; the other three are set when info.Sys() is a Stat_t.
GetFileInfo(stat, ok) ==
    [FileModified |-> Unix(stat.Mtim.Sec, stat.Mtim.Nsec),
     FileAccessed |-> IF ok THEN Unix(stat.Atim.Sec, stat.Atim.Nsec) ELSE ZeroInstant,
     FileChanged |-> IF ok THEN Unix(stat.Mtim.Sec, stat.Ctim.Nsec) ELSE ZeroInstant,
     FileBirth |-> IF ok THEN Unix(stat.Ctim.Sec, stat.Ctim.Nsec) ELSE ZeroInstant]

\* A call of GetFileInfo by the drift detection.
CallGetFileInfo(stat, ok) ==
    /\ pc = "idle"
    /\ ret' = [op |-> "GetFileInfo", err |-> "nil", panic |-> FALSE,
               stat |-> stat, ok |-> ok, info |-> GetFileInfo(stat, ok)]
    /\ pc' = "done"
    /\ UNCHANGED <<host, disk, backend, metaDB, snapshotOpenable, ctr, mountpoint, ssk, snapshotkeys>>

\* Stat timestamps.
Timespecs == [Sec : {1, 2}, Nsec : {0, 5}]

InitCli ==
    /\ backend \in {"containerd", "docker"}
    /\ NoSnapshots
    /\ Fresh
    /\ NoDisk

NextCli ==
    \/ \E stat \in [Atim : Timespecs, Mtim : Timespecs, Ctim : Timespecs],
          ok \in BOOLEAN :
           CallGetFileInfo(stat, ok)
    \/ \E sub \in {"containers", "images", "content", "snapshots", "tasks"},
          output \in {"json", "JSON", "table"}, outputfile \in {"", "F"},
          envok \in BOOLEAN, listok \in BOOLEAN :
           ListSubcommand(sub,
               [n \in {"output", "output-file"} |->
                   IF n = "output" THEN output ELSE outputfile],
               envok, listok)

SpecCli == InitCli /\ [][NextCli]_vars

\* ---------------------------------------------------------------- database handles
\* The handles of metadata.db that are open when the operation has
\* returned: MountContainer and ListSnapshots open the snapshot database
\* with bolt.Open and have no Close call, deferred or not.
OpenHandles == IF ret.sdbOpen THEN {"metadata.db"} ELSE {}

\* ---------------------------------------------------------------- export
\* The outcomes of the steps of exportContainerImage: sizing and creating
\* the image file, mkfs.ext4, os.MkdirTemp, the losetup invocation, the
\* second losetup invocation that collects the output of a failed first
\* one, mount, cp and sync.
ImageOutcomes ==
    [file : BOOLEAN, mkfs : BOOLEAN, mkdirtemp : BOOLEAN, losetup : BOOLEAN,
     again : BOOLEAN, mount : BOOLEAN, cp : BOOLEAN, sync : BOOLEAN]

\* The deferred function of exportContainerImage: umount when the image
\* was mounted, losetup -d when loopDevice is set, then os.RemoveAll.
ImageCleanup(mounted, loopDevice) ==
    (IF mounted THEN <<"umount">> ELSE <<>>)
        \o (IF loopDevice # "" THEN <<"losetup -d " \o loopDevice>> ELSE <<>>)
        \o <<"removeall">>

\* exportContainerImage: the error it returns, the loop devices its losetup
\* invocations attached, and the commands it issued in order. The first
\* invocation attaches loop0; when it fails losetup is run once more for its
\* combined output, and that invocation attaches loop1 when it succeeds.
exportContainerImage(o) ==
    IF ~o.file THEN [err |-> "image file", attached |-> {}, ops |-> <<>>]
    ELSE IF ~o.mkfs THEN [err |-> "mkfs.ext4", attached |-> {}, ops |-> <<"mkfs">>]
    ELSE IF ~o.mkdirtemp
    THEN [err |-> "mount directory", attached |-> {}, ops |-> <<"mkfs">>]
    ELSE IF ~o.losetup
    THEN [err |-> "losetup",
          attached |-> IF o.again THEN {"loop1"} ELSE {},
          ops |-> <<"mkfs", "mkdirtemp", "losetup", "losetup">>
                      \o ImageCleanup(FALSE, "")]
    ELSE IF ~o.mount
    THEN [err |-> "mount", attached |-> {"loop0"},
          ops |-> <<"mkfs", "mkdirtemp", "losetup", "mount">>
                      \o ImageCleanup(FALSE, "loop0")]
    ELSE IF ~o.cp
    THEN [err |-> "cp", attached |-> {"loop0"},
          ops |-> <<"mkfs", "mkdirtemp", "losetup", "mount", "cp">>
                      \o ImageCleanup(TRUE, "loop0")]
    ELSE [err |-> "nil", attached |-> {"loop0"},
          ops |-> <<"mkfs", "mkdirtemp", "losetup", "mount", "cp", "sync">>
                      \o ImageCleanup(TRUE, "loop0")]

\* A call of exportContainerImage on a mounted container.
CallExportContainerImage(o) ==
    /\ pc = "idle"
    /\ backend = "docker"
    /\ ret' = [op |-> "exportContainerImage", err |-> exportContainerImage(o).err,
               panic |-> FALSE, outcomes |-> o,
               attached |-> exportContainerImage(o).attached,
               ops |-> exportContainerImage(o).ops]
    /\ pc' = "done"
    /\ UNCHANGED <<host, disk, backend, metaDB, snapshotOpenable, ctr, mountpoint, ssk, snapshotkeys>>

InitImage ==
    /\ backend = "docker"
    /\ NoSnapshots
    /\ Fresh
    /\ NoDisk

NextImage == \E o \in ImageOutcomes : CallExportContainerImage(o)

SpecImage == InitImage /\ [][NextImage]_vars

\* The export sessions of the model and the names utils.GetMountPoint can
\* return (six random characters under /mnt).
Sessions == {1, 2}
MountNames == {"/mnt/aaaaaa", "/mnt/bbbbbb"}

IdleSession ==
    [pc |-> "idle", ctr |-> MissingContainer, mountpoint |-> "", err |-> "nil",
     log |-> <<>>]

\* What is mounted on a directory, the last mount on top.
MountsOn(dir) == IF dir \in DOMAIN mnt.mounts THEN mnt.mounts[dir] ELSE <<>>
SetMounts(dir, stack) ==
    [d \in DOMAIN mnt.mounts \cup {dir} |-> IF d = dir THEN stack ELSE mnt.mounts[d]]

\* os.Remove of a mountpoint directory: fails on a directory that is
\* missing or has something mounted on it.
RemoveDir(dirs, dir, stack) == IF stack = <<>> THEN dirs \ {dir} ELSE dirs

\* ExportContainer up to the mount loop: the container must be listed and
\* the output directory must exist or be created.
ExportContainer(i, containerID, outdirok) ==
    /\ sessions[i].pc = "idle"
    /\ LET list == DockerContainerList(<<>>)
           error == IF list.err # "nil" THEN "failed to list containers"
                    ELSE IF \A k \in DOMAIN list.items : list.items[k].ID # containerID
                    THEN "does not exist"
                    ELSE IF ~outdirok THEN "output directory"
                    ELSE "nil"
       IN  sessions' = [sessions EXCEPT ![i] =
               [@ EXCEPT !.ctr = containerID, !.err = error,
                         !.pc = IF error = "nil" THEN "draw" ELSE "returned"]]
    /\ UNCHANGED <<mnt, pc, ret, disk, backend, metaDB, snapshotOpenable, ctr, mountpoint, ssk, snapshotkeys>>

\* The mount loop: utils.GetMountPoint and utils.PathExists. An existing
\* path draws again.
GetMountPoint(i, name) ==
    /\ sessions[i].pc = "draw"
    /\ sessions' = [sessions EXCEPT ![i] =
           [@ EXCEPT !.mountpoint = name,
                     !.pc = IF name \in mnt.dirs THEN "draw" ELSE "mkdir"]]
    /\ UNCHANGED <<mnt, pc, ret, disk, backend, metaDB, snapshotOpenable, ctr, mountpoint, ssk, snapshotkeys>>

\* The mount loop: os.MkdirAll of the path that did not exist, which
\* succeeds on a directory that exists by now.
MkdirAll(i, ok) ==
    /\ sessions[i].pc = "mkdir"
    /\ IF ok
       THEN /\ mnt' = [mnt EXCEPT !.dirs = @ \cup {sessions[i].mountpoint}]
            /\ sessions' = [sessions EXCEPT ![i] =
                   [@ EXCEPT !.pc = "mount", !.log = Append(@, "mkdir")]]
       ELSE /\ mnt' = mnt
            /\ sessions' = [sessions EXCEPT ![i] =
                   [@ EXCEPT !.pc = "returned", !.err = "mountpoint directory"]]
    /\ UNCHANGED <<pc, ret, disk, backend, metaDB, snapshotOpenable, ctr, mountpoint, ssk, snapshotkeys>>

\* e.MountContainer on the mountpoint; on failure os.Remove of the
\* mountpoint and return.
MountForExport(i, ok) ==
    /\ sessions[i].pc = "mount"
    /\ LET dir == sessions[i].mountpoint
       IN  IF ok
           THEN /\ mnt' = [mnt EXCEPT !.mounts = SetMounts(dir, Append(MountsOn(dir), i))]
                /\ sessions' = [sessions EXCEPT ![i] =
                       [@ EXCEPT !.pc = "export", !.log = Append(@, "mount")]]
           ELSE /\ mnt' = [mnt EXCEPT !.dirs = RemoveDir(@, dir, MountsOn(dir))]
                /\ sessions' = [sessions EXCEPT ![i] =
                       [@ EXCEPT !.pc = "returned", !.err = "failed to mount",
                                 !.log = @ \o <<"mount failed", "remove">>]]
    /\ UNCHANGED <<pc, ret, disk, backend, metaDB, snapshotOpenable, ctr, mountpoint, ssk, snapshotkeys>>

\* The image and the archive export of the mounted container: the first
\* failure is the error ExportContainer returns.
ExportMounted(i, image, archive, o, archiveok) ==
    /\ sessions[i].pc = "export"
    /\ LET ierr == IF image THEN exportContainerImage(o).err ELSE "nil"
           error == IF ierr # "nil" THEN "failed to export as raw image"
                    ELSE IF archive /\ ~archiveok THEN "failed to export as archive"
                    ELSE "nil"
       IN  sessions' = [sessions EXCEPT ![i] =
               [@ EXCEPT !.pc = "cleanup", !.err = error,
                         !.log = @ \o (IF image THEN <<"image">> ELSE <<>>)
                                   \o (IF archive /\ ierr = "nil"
                                       THEN <<"archive">> ELSE <<>>)]]
    /\ UNCHANGED <<mnt, pc, ret, disk, backend, metaDB, snapshotOpenable, ctr, mountpoint, ssk, snapshotkeys>>

\* The deferred function of ExportContainer: umount of the mountpoint,
\* then os.Remove of it.
DeferredRemoveOnly == <<"remove">>
DeferredCleanup == <<"umount", "remove">>

ExportCleanup(i, umountok) ==
    /\ sessions[i].pc = "cleanup"
    /\ LET dir == sessions[i].mountpoint
           stack == MountsOn(dir)
           left == IF umountok /\ "umount" \in {DeferredCleanup[k] : k \in DOMAIN DeferredCleanup}
                      /\ stack # <<>>
                   THEN SubSeq(stack, 1, Len(stack) - 1) ELSE stack
       IN  /\ mnt' = [dirs |-> RemoveDir(mnt.dirs, dir, left),
                      mounts |-> SetMounts(dir, left)]
           /\ sessions' = [sessions EXCEPT ![i] =
                  [@ EXCEPT !.pc = "returned", !.log = @ \o DeferredCleanup]]
    /\ UNCHANGED <<pc, ret, disk, backend, metaDB, snapshotOpenable, ctr, mountpoint, ssk, snapshotkeys>>

\* Two export commands started on one host; /mnt may hold a directory of
\* the first name already.
InitExport ==
    /\ backend = "docker"
    /\ NoSnapshots
    /\ pc = "idle"
    /\ ctr = MissingContainer
    /\ mountpoint = ""
    /\ ssk = EmptyKey
    /\ snapshotkeys = <<>>
    /\ ret = NoRet
    /\ cgroup = <<>>
    /\ store \in {<<NoConfig>>,
                  <<ConfigFile(1, <<"nginx">>, <<"a">>, NoLabels,
                               [StartedAt |-> 1, Running |-> TRUE, Paused |-> FALSE])>>}
    /\ repositories = NoRepositories
    /\ sc = NilPolicy
    /\ nss = NoMdb
    /\ sessions = [i \in Sessions |-> IdleSession]
    /\ mnt \in {[dirs |-> d, mounts |-> <<>>] : d \in {{}, {"/mnt/aaaaaa"}}}

NextExport ==
    \E i \in Sessions :
        \/ \E containerID \in {MissingContainer, 1}, outdirok \in BOOLEAN :
               ExportContainer(i, containerID, outdirok)
        \/ \E name \in MountNames : GetMountPoint(i, name)
        \/ \E ok \in BOOLEAN : MkdirAll(i, ok)
        \/ \E ok \in BOOLEAN : MountForExport(i, ok)
        \/ \E image \in BOOLEAN, archive \in BOOLEAN, archiveok \in BOOLEAN,
              o \in {x \in ImageOutcomes :
                        x.file /\ x.mkdirtemp /\ x.again /\ x.mount /\ x.sync
                            /\ (x.losetup => x.cp)} :
               ExportMounted(i, image, archive, o, archiveok)
        \/ \E umountok \in BOOLEAN : ExportCleanup(i, umountok)

SpecExport == InitExport /\ [][NextExport]_vars

\* ---------------------------------------------------------------- specification
\* meta.db as NewExplorer finds it: every key has no bucket, or a bucket
\* whose parent is empty or any key (present or not, itself included).
ChainMetaDBs ==
    {[k \in Keys |->
         IF f[k].exists THEN MetaBucket(k, f[k].parent, NilLabels)
         ELSE NoMetaBucket] :
     f \in [Keys -> [exists : BOOLEAN, parent : {EmptyKey} \cup Keys]]}

\* The command line selects the containerd or the Docker explorer; the
\* Docker explorer's mount reads plain files only.
Init ==
    /\ \/ /\ backend = "containerd"
          /\ metaDB \in ChainMetaDBs
          /\ snapshotOpenable \in BOOLEAN
       \/ /\ backend = "docker"
          /\ metaDB = [k \in Keys |-> NoMetaBucket]
          /\ snapshotOpenable = FALSE
    /\ pc = "idle"
    /\ ctr = MissingContainer
    /\ mountpoint = ""
    /\ ssk = EmptyKey
    /\ snapshotkeys = <<>>
    /\ ret = NoRet
    /\ ChainDisk
    /\ NoSessions

Next ==
    \/ \E c \in ContainerIDs, mp \in MountPoints : MountContainer(c, mp)
    \/ SnapshotKeysStep
    \/ \E c \in ContainerIDs, mp \in MountPoints : MountCommand(c, mp)
    \/ ContainerParentsStep
    \/ \E c \in ContainerIDs, mp \in MountPoints, mountidok \in BOOLEAN,
          lowerok \in BOOLEAN, data \in LowerFiles, mountok \in BOOLEAN :
           DockerMountContainer(c, mp, mountidok, lowerok, data, mountok)
    \/ ListSnapshots(UniformSdbs)
    \/ ListNamespaces
    \/ ListContainers
    \/ ListImages
    \/ ListContent
    \/ \E c \in ContainerIDs, spec \in BOOLEAN : InfoContainer(c, spec)

Spec == Init /\ [][Next]_vars

\* The listing is the same for every key, so the merge is explored on
\* databases whose buckets share one content: meta.db gives every present
\* key the same parent and labels, metadata.db gives every present name the
\* same id, kind, size, parent and labels; which keys and names have a
\* bucket varies freely on both sides.
LabelMaps == UNION {[d -> LabelVals] : d \in SUBSET LabelKeys}
LabelChoices == {NilLabels} \cup {MapLabels(m) : m \in LabelMaps}

ListMetaDBs ==
    {[k \in Keys |-> IF k \in present THEN MetaBucket(k, p, l) ELSE NoMetaBucket] :
     present \in SUBSET Keys, p \in {EmptyKey, 1}, l \in LabelChoices}

ListSdbs ==
    {[n \in Names |->
         IF n \in present THEN OverlayBucket(i, ks[1], ks[2], p, l)
         ELSE NoOverlayBucket] :
     present \in SUBSET Names, i \in 1 .. MaxId, ks \in {<<2, 0>>, <<3, 5>>},
     p \in {EmptyKey, 1, 2}, l \in LabelChoices}

InitList ==
    /\ backend = "containerd"
    /\ metaDB \in ListMetaDBs
    /\ snapshotOpenable \in BOOLEAN
    /\ pc = "idle"
    /\ ctr = MissingContainer
    /\ mountpoint = ""
    /\ ssk = EmptyKey
    /\ snapshotkeys = <<>>
    /\ ret = NoRet
    /\ NoDisk
    /\ NoSessions

NextList == ListSnapshots(ListSdbs)

SpecList == InitList /\ [][NextList]_vars

\* Container stores for the commands over all containers. A containerd
\* record is an image, labels and a runtime spec; the id is the position.
PodName == <<"io.kubernetes.pod.name">>

ContainerLabels ==
    {NoLabels,
     [k \in {<<"a">>} |-> <<"x">>],
     [k \in {<<"a">>, <<"b">>} |-> IF k = <<"a">> THEN <<"x">> ELSE <<"y">>],
     [k \in {PodName} |-> <<"p1">>]}

ContainerSpecs ==
    {NoSpec,
     RuntimeSpec(<<"h1">>, NoProcess),
     RuntimeSpec(<<"h1">>, Process(<<<<"HOSTNAME", "=", "h2">>>>)),
     RuntimeSpec(<<>>, Process(<<<<"PATH", "=", "/bin">>, <<"HOSTNAME", "=", "h2">>>>)),
     RuntimeSpec(<<>>, Process(<<<<"PATH", "=", "/bin">>>>)),
     RuntimeSpec(<<>>, NoProcess)}

ContainerdShapes ==
    [Image : {<<"nginx", ":", "1">>, <<"gke.gcr.io/fluent-bit", ":", "v1">>},
     Labels : ContainerLabels, Spec : ContainerSpecs]

ContainerdStores ==
    {[i \in DOMAIN f |-> Container(i, f[i].Image, f[i].Labels, f[i].Spec)] :
     f \in [1 .. 1 -> ContainerdShapes] \cup [1 .. 2 -> ContainerdShapes]
             \cup [1 .. 3 -> {s \in ContainerdShapes :
                                 s.Spec.isnil /\ s.Labels = NoLabels}]}

\* A Docker container directory: no readable config, or an image and labels.
DockerShapes ==
    {[valid |-> FALSE]}
        \cup [valid : {TRUE}, Image : {<<"nginx">>, <<"redis">>},
              Labels : ContainerLabels]

DockerStores ==
    {[i \in DOMAIN f |->
         IF f[i].valid
         THEN ConfigFile(i, f[i].Image, <<"a">>, f[i].Labels,
                         [StartedAt |-> 1, Running |-> TRUE, Paused |-> FALSE])
         ELSE NoConfig] :
     f \in {<<>>} \cup [1 .. 1 -> DockerShapes] \cup [1 .. 2 -> DockerShapes]}

\* The values of the --filter flag.
FilterLists ==
    {<<>>, <<<<"a", "=", "x">>>>, <<<<"a", "=", "y">>>>, <<<<"b", "=", "y">>>>,
     <<<<"a", "=", "x">>, <<"b", "=", "y">>>>, <<<<"a">>>>}

Outcomes == [DOMAIN store -> BOOLEAN]

InitContainers ==
    /\ NoSnapshots
    /\ Fresh
    /\ cgroup = <<>>
    /\ repositories = NoRepositories
    /\ \/ /\ backend = "containerd"
          /\ store \in ContainerdStores
          /\ sc = NilPolicy
          /\ nss = Mdb(<<"default">>)
       \/ /\ backend = "docker"
          /\ store \in DockerStores
          /\ sc \in {NilPolicy, Policy(<<>>, <<<<"nginx">>>>, <<>>)}
          /\ nss \in {NoMdb, Mdb(<<>>), Mdb(<<"default">>), Mdb(<<"default", "k8s.io">>)}

NextContainers ==
    \/ ListContainers
    \/ \E filters \in FilterLists, order \in Orders(repositories.entries) :
           listContainers(filters, order)
    \/ \E filters \in FilterLists, exportSupportContainers \in BOOLEAN,
          order \in Orders(repositories.entries) :
           ExportAllContainers(filters, exportSupportContainers, order)
    \/ \E i \in DOMAIN store, filters \in FilterLists : CallIgnoreContainer(i, filters)
    \/ \E c \in {MissingContainer} \cup DOMAIN store, spec \in BOOLEAN :
           InfoContainer(c, spec)
    \/ ListNamespaces
    \/ \E mp \in MountPoints, skipsupportcontainers \in BOOLEAN,
          mkdirok \in Outcomes, mountok \in Outcomes :
           MountAllContainers(mp, skipsupportcontainers, mkdirok, mountok)
    \/ \E mp \in MountPoints, skipsupportcontainers \in BOOLEAN,
          mkdirok \in Outcomes, mountok \in Outcomes,
          order \in Orders(repositories.entries) :
           DockerMountAllContainers(mp, skipsupportcontainers, mkdirok, mountok, order)

SpecContainers == InitContainers /\ [][NextContainers]_vars

\* ---------------------------------------------------------------- properties
Resolvers == {"SnapshotKeys", "ContainerParents"}

\* The parent path of key k as meta.db describes it: the sequences of
\* distinct keys that start at k, follow the parent field from bucket to
\* bucket and end at a bucket with an empty parent (at most one exists).
KeyPaths(k) ==
    {p \in UNION {[1 .. n -> Keys] : n \in 1 .. NumKeys} :
        /\ p[1] = k
        /\ \A i \in DOMAIN p : metaDB[p[i]].exists
        /\ \A i, j \in DOMAIN p : i # j => p[i] # p[j]
        /\ \A i \in 1 .. Len(p) - 1 : metaDB[p[i]].parent = p[i + 1]
        /\ metaDB[p[Len(p)]].parent = EmptyKey}

\* The keys met when following the parent field from key k, as far as the
\* buckets exist (each key once).
RECURSIVE Reached(_, _)
Reached(k, seen) ==
    IF k = EmptyKey \/ k \in seen \/ ~metaDB[k].exists THEN seen \cup {k}
    ELSE Reached(metaDB[k].parent, seen \cup {k})

\* The walk from key k meets a key that has no bucket.
Dangling(k) == \E j \in Reached(k, {}) : j # EmptyKey /\ ~metaDB[j].exists

\* The command has returned after running a chain resolver for container c.
Resolved(c) == pc = "done" /\ ret.resolver \in Resolvers /\ ret.ctr = c

\* C1: for a container whose parent pointers form a finite acyclic path that
\* ends at a bucket with empty parent, either resolver returns, without
\* error, the names of the buckets on that path, in path order, each once.
C1_ChainIsParentPath ==
    \A c \in Keys :
        Resolved(c) =>
            \A p \in KeyPaths(Containers[c].SnapshotKey) :
                /\ ret.chainErr = "nil"
                /\ Len(ret.chain) >= 1
                /\ ret.chain = [i \in DOMAIN p |-> metaDB[p[i]].name]

C1_Witness ==
    /\ pc = "done"
    /\ ret.resolver = "SnapshotKeys"
    /\ ret.chainErr = "nil"
    /\ Len(ret.chain) = NumKeys
    /\ KeyPaths(Containers[ret.ctr].SnapshotKey) # {}

\* C2 (as claimed): a resolver that is about to look up a key whose bucket
\* it has already visited ends the resolution with a cycle error.
C2_CycleFails ==
    [][(/\ pc \in Resolvers
        /\ getSnapshotKeyBucket(ssk).exists
        /\ getSnapshotKeyBucket(ssk).name \in Range(snapshotkeys))
       => (pc' = "done" /\ ret'.chainErr = "cycle" /\ ret'.chain = <<>>)]_vars

\* The lower list the specification prescribes for a chain: the fs paths
\* of chain[2], chain[3], ... in that order.
ExpectedLower(chain, sdb) ==
    [i \in 1 .. Len(chain) - 1 |-> SnapshotPath(sdb[chain[i + 1]].id, "fs")]

\* C3 (as claimed): whenever overlay paths were computed for a chain with
\* at least one parent, lowerdir lists the parents' fs paths from the layer
\* closest to the upper to the base layer, and upperdir / workdir are the
\* fs / work paths of the first element.
C3_LowerdirOrder ==
    (/\ pc = "done"
     /\ ret.op \in {"MountContainer", "MountCommand"}
     /\ ret.executed
     /\ Len(ret.chain) >= 2)
    => /\ ret.lowerdir = ExpectedLower(ret.chain, ret.sdb)
       /\ ret.upperdir = SnapshotPath(ret.sdb[ret.chain[1]].id, "fs")
       /\ ret.workdir = SnapshotPath(ret.sdb[ret.chain[1]].id, "work")

\* C4 (as claimed): every mount command issued by MountContainer of the
\* containerd and of the Docker explorer has options "ro,lowerdir=" followed
\* by the upperdir and then the lower layers.
C4_UpperFirst ==
    (/\ pc = "done"
     /\ ret.op \in {"MountContainer", "DockerMountContainer"}
     /\ ret.executed)
    => /\ ret.opts.prefix = "ro,lowerdir="
       /\ ret.opts.paths = <<ret.upperdir>> \o ret.lowerdir

\* The chain of container c has length 1: its snapshot key has a bucket
\* with an empty parent.
ChainOfOne(c) ==
    /\ c \in Keys
    /\ metaDB[Containers[c].SnapshotKey].exists
    /\ metaDB[Containers[c].SnapshotKey].parent = EmptyKey

\* C5 (as claimed): for a chain of length 1 MountContainer returns the
\* lowerdir-empty error and no mount command is executed.
C5_Original ==
    (pc = "done" /\ ret.op = "MountContainer" /\ ChainOfOne(ret.ctr))
    => (ret.err = "lowerdir is empty" /\ ~ret.executed)

\* C5 (amended): for a chain of length 1 MountContainer returns an error
\* and executes no mount command; the error is lowerdir-empty when the
\* snapshot database was opened and holds a bucket for the snapshot name.
C5_LowerdirEmpty ==
    (pc = "done" /\ ret.op = "MountContainer" /\ ChainOfOne(ret.ctr))
    => /\ ~ret.executed
       /\ ret.err # "nil"
       /\ (ret.sdbOpen /\ ret.sdb[NameOf(Containers[ret.ctr].SnapshotKey)].exists)
            => ret.err = "lowerdir is empty"

C5_Witness ==
    /\ pc = "done"
    /\ ret.op = "MountContainer"
    /\ ChainOfOne(ret.ctr)
    /\ ret.err = "lowerdir is empty"
    /\ ret.lowerdir = <<>>
    /\ ~ret.executed

\* C6 (as claimed): when the walk from the container's snapshot key meets a
\* key without bucket, either resolver returns an error and no chain.
C6_DanglingFails ==
    \A c \in Keys :
        (Resolved(c) /\ Dangling(Containers[c].SnapshotKey))
        => (ret.chainErr = "error" /\ ret.chain = <<>> /\ ~ret.panic)

\* The record List builds for key k from meta.db alone.
MetaOnlyRecord(k) ==
    [Key |-> k, Name |-> metaDB[k].name, Parent |-> metaDB[k].parent,
     ID |-> 0, Kind |-> 0, Size |-> 0, Labels |-> metaDB[k].labels,
     CreatedAt |-> metaDB[k].createdat]

\* The list holds one record for every key bucket of meta.db, in key order.
OneRecordPerKey(list) ==
    /\ Len(list) = Cardinality({k \in Keys : metaDB[k].exists})
    /\ \A i \in DOMAIN list : list[i].Key \in Keys /\ metaDB[list[i].Key].exists
    /\ \A i, j \in DOMAIN list : i < j => list[i].Key < list[j].Key

ListOps ==
    {"ListNamespaces", "ListContainers", "ListImages", "ListContent",
     "ListSnapshots"}

Merged(i) ==
    ret.sdbOpen /\ getOverlaySnapshotBucket(ret.sdb, ret.list[i].Name).exists

\* C8 (as claimed): List returns, without failing, one record for every key
\* bucket of meta.db whatever metadata.db holds, and a record without
\* metadata.db side is the meta.db record with zero ID, kind and size.
C8_OneRecordPerKey ==
    (pc = "done" /\ ret.op = "ListSnapshots") =>
        /\ ~ret.panic
        /\ ret.err = "nil"
        /\ OneRecordPerKey(ret.list)
        /\ \A i \in DOMAIN ret.list :
              ~Merged(i) => ret.list[i] = MetaOnlyRecord(ret.list[i].Key)

\* C9: in a merged record Parent is meta.db's parent unless that is empty,
\* then metadata.db's; ID, Kind and Size are those of metadata.db.
C9_MergedParent ==
    (pc = "done" /\ ret.op = "ListSnapshots") =>
        \A i \in DOMAIN ret.list :
            Merged(i) =>
                LET m == metaDB[ret.list[i].Key]
                    o == ret.sdb[ret.list[i].Name]
                IN  /\ m.parent # EmptyKey => ret.list[i].Parent = m.parent
                    /\ m.parent = EmptyKey => ret.list[i].Parent = o.parent
                    /\ ret.list[i].ID = o.id
                    /\ ret.list[i].Kind = o.kind
                    /\ ret.list[i].Size = o.size

C9_Witness ==
    /\ pc = "done"
    /\ ret.op = "ListSnapshots"
    /\ \E i \in DOMAIN ret.list :
          /\ Merged(i)
          /\ metaDB[ret.list[i].Key].parent # EmptyKey
          /\ ret.sdb[ret.list[i].Name].parent # EmptyKey
          /\ ret.sdb[ret.list[i].Name].parent # metaDB[ret.list[i].Key].parent
          /\ ret.list[i].Parent = metaDB[ret.list[i].Key].parent
          /\ ret.list[i].ID = ret.sdb[ret.list[i].Name].id

\* C10 (as claimed): every key bucket of meta.db that has a metadata.db side
\* gets a record whose labels hold meta.db's value for the keys meta.db has
\* and metadata.db's value for the others, also when meta.db has no labels.
C10_MergedLabels ==
    (pc = "done" /\ ret.op = "ListSnapshots" /\ ret.sdbOpen) =>
        \A k \in Keys :
            (metaDB[k].exists /\ ret.sdb[metaDB[k].name].exists) =>
                LET m == metaDB[k].labels.kv
                    o == ret.sdb[metaDB[k].name].labels.kv
                IN  /\ ~ret.panic
                    /\ \E i \in DOMAIN ret.list :
                          /\ ret.list[i].Key = k
                          /\ DOMAIN ret.list[i].Labels.kv = DOMAIN m \cup DOMAIN o
                          /\ \A lk \in DOMAIN m : ret.list[i].Labels.kv[lk] = m[lk]
                          /\ \A lk \in DOMAIN o \ DOMAIN m :
                                ret.list[i].Labels.kv[lk] = o[lk]

\* ---------------------------------------------------------------- runtime properties
\* The tokens of the line of a key in a cgroup.events text: what stands
\* between the key's separator and the end of its line.
KeyPositions(text, key) == {i \in DOMAIN text : text[i] = key}

GivenTokens(text, key) ==
    LET i == CHOOSE p \in KeyPositions(text, key) : TRUE
        end == CHOOSE j \in i .. Len(text) :
                   /\ text[j] = "\n"
                   /\ \A k \in i .. j - 1 : text[k] # "\n"
    IN  SubSeq(text, i + 2, end - 1)

\* The value cgroup.events gives for a key: 0, 1, or "other" (missing key,
\* non-numeric value, any other number).
Given(text, key) ==
    IF KeyPositions(text, key) = {} THEN "other"
    ELSE IF GivenTokens(text, key) = <<"0">> THEN "0"
    ELSE IF GivenTokens(text, key) = <<"1">> THEN "1"
    ELSE "other"

StatusTable(populated, frozen) ==
    IF populated = "0" /\ frozen = "0" THEN "STOPPED"
    ELSE IF populated = "1" /\ frozen = "0" THEN "RUNNING"
    ELSE IF populated = "1" /\ frozen = "1" THEN "PAUSED"
    ELSE "UNKNOWN"

\* C11: GetTaskStatus returns STOPPED iff cgroup.events gives (populated,
\* frozen) = (0,0), RUNNING iff (1,0), PAUSED iff (1,1) and UNKNOWN for every
\* other combination, whatever the order of the lines.
C11_StatusTable ==
    (ret.op = "GetTaskStatus" /\ cgroup[ret.task].events.exists) =>
        LET text == cgroup[ret.task].events.text
        IN  ret.status = StatusTable(Given(text, "populated"), Given(text, "frozen"))

\* A PAUSED status was returned for a file whose frozen line comes first.
C11_Witness ==
    /\ ret.op = "GetTaskStatus"
    /\ cgroup[ret.task].events.exists
    /\ LET text == cgroup[ret.task].events.text
       IN  /\ Given(text, "populated") = "1"
           /\ Given(text, "frozen") = "1"
           /\ text[1] = "frozen"
           /\ ret.status = "PAUSED"

FirstLine(text) ==
    IF \E i \in DOMAIN text : text[i] = "\n"
    THEN SubSeq(text, 1, (CHOOSE i \in DOMAIN text :
                            /\ text[i] = "\n"
                            /\ \A k \in 1 .. i - 1 : text[k] # "\n") - 1)
    ELSE text

\* The decimal integers among the first lines of the model.
ExpectedPID(first) ==
    IF first = <<"1">> THEN 1
    ELSE IF first = <<"2", "1">> THEN 21
    ELSE 0 - 1

\* C13: GetTaskPID returns the decimal integer on the first line of
\* cgroup.procs whatever follows it, and -1 when the file is missing, empty
\* or its first line is not an integer.
C13_FirstLinePID ==
    ret.op = "GetTaskPID" =>
        LET procs == cgroup[ret.task].procs
        IN  ret.pid = IF procs.exists THEN ExpectedPID(FirstLine(procs.text))
                      ELSE 0 - 1

\* The PID 21 was returned from a file whose second line is not a number.
C13_Witness ==
    /\ ret.op = "GetTaskPID"
    /\ cgroup[ret.task].procs = File(<<"2", "1", "\n", "x", "\n">>)
    /\ ret.pid = 21

\* ---------------------------------------------------------------- policy properties
UpperChar(c) == CASE c = "a" -> "A" [] c = "b" -> "B" [] OTHER -> c

\* sub occurs in s when letter case is ignored.
OccursIgnoringCase(s, sub) ==
    \E off \in 0 .. Len(s) - Len(sub) :
        \A j \in DOMAIN sub : UpperChar(s[off + j]) = UpperChar(sub[j])

SameIgnoringCase(s, t) ==
    Len(s) = Len(t) /\ \A j \in DOMAIN s : UpperChar(s[j]) = UpperChar(t[j])

\* C16: IsSupportContainer is true iff the policy is non-null and a
\* configured image substring occurs case-insensitively in ImageBase, or a
\* configured name substring in Hostname, or a label "k=v" of the container
\* equals a configured label under case folding; with a null policy it is
\* false.
C16_SupportContainer ==
    ret.op = "IsSupportContainer" =>
        LET c == store[ret.ctr]
        IN  ret.support =
              /\ ~sc.isnil
              /\ \/ \E i \in DOMAIN sc.ImageNames :
                       OccursIgnoringCase(c.ImageBase, sc.ImageNames[i])
                 \/ \E i \in DOMAIN sc.ContainerNames :
                       OccursIgnoringCase(c.Hostname, sc.ContainerNames[i])
                 \/ \E k \in DOMAIN c.Labels, i \in DOMAIN sc.Labels :
                       SameIgnoringCase(k \o <<"=">> \o c.Labels[k], sc.Labels[i])

\* A container classified by an image substring in other letter case that is
\* shorter than its ImageBase.
C16_Witness ==
    /\ ret.op = "IsSupportContainer"
    /\ ret.support
    /\ ~sc.isnil
    /\ sc.ImageNames = <<<<"b">>>>
    /\ store[ret.ctr].ImageBase = <<"A", "b">>
    /\ store[ret.ctr].Hostname = <<>>

\* ---------------------------------------------------------------- Docker container properties
\* C14: every combination of (StartedAt zero, Running, Paused) gets exactly
\* one status: CREATED when StartedAt is the zero time; otherwise PAUSED
\* when running and paused, RUNNING when running and not paused, STOPPED when
\* neither, UNKNOWN when paused but not running; never the empty status.
C14_DockerStatus ==
    (ret.op = "GetCEContainer" /\ ret.err = "nil") =>
        LET state == store[ret.ctr].State
            status == ret.container.Status
        IN  /\ status # ""
            /\ (state.StartedAt = ZeroTime) => status = "CREATED"
            /\ (state.StartedAt # ZeroTime /\ state.Running /\ state.Paused)
                  => status = "PAUSED"
            /\ (state.StartedAt # ZeroTime /\ state.Running /\ ~state.Paused)
                  => status = "RUNNING"
            /\ (state.StartedAt # ZeroTime /\ ~state.Running /\ ~state.Paused)
                  => status = "STOPPED"
            /\ (state.StartedAt # ZeroTime /\ ~state.Running /\ state.Paused)
                  => status = "UNKNOWN"

\* A container that was never started but is flagged running is CREATED.
C14_Witness ==
    /\ ret.op = "GetCEContainer"
    /\ ret.err = "nil"
    /\ store[ret.ctr].State.StartedAt = ZeroTime
    /\ store[ret.ctr].State.Running
    /\ ret.container.Status = "CREATED"

HasAt(name) == \E i \in DOMAIN name : name[i] = "@"

\* The names repositories.json maps to an image id.
NamesOf(d) ==
    {n \in DOMAIN repositories.entries : repositories.entries[n] = d}

\* C15: an image id that repositories.json maps from a name without "@" and
\* from a name with "@" gets a name without "@" as its friendly name,
\* whatever the order of the entries; an image id that has only names with
\* "@" gets no friendly name.
C15_FriendlyName ==
    (ret.op = "GetCEContainer" /\ repositories.exists) =>
        /\ ~ret.imagerepo.isnil
        /\ \A d \in ImageIDs :
              /\ (\E n \in NamesOf(d) : ~HasAt(n)) =>
                    /\ d \in DOMAIN ret.imagerepo.map
                    /\ ret.imagerepo.map[d] \in NamesOf(d)
                    /\ ~HasAt(ret.imagerepo.map[d])
              /\ (\A n \in NamesOf(d) : HasAt(n)) =>
                    d \notin DOMAIN ret.imagerepo.map
        /\ ret.err = "nil" =>
              LET d == store[ret.ctr].Image
              IN  IF d \in DOMAIN ret.imagerepo.map
                  THEN ret.container.Image = ret.imagerepo.map[d]
                  ELSE ret.container.Image = d

\* The container's image id has both kinds of names and the container is
\* shown under the name with the tag.
C15_Witness ==
    /\ ret.op = "GetCEContainer"
    /\ ret.err = "nil"
    /\ repositories.exists
    /\ LET d == store[ret.ctr].Image
       IN  /\ \E n \in NamesOf(d) : HasAt(n)
           /\ \E n \in NamesOf(d) : ~HasAt(n)
           /\ ret.container.Image \in NamesOf(d)
           /\ ~HasAt(ret.container.Image)

\* ---------------------------------------------------------------- properties of the commands over all containers
\* The value of the first HOSTNAME= entry of an environment.
HostnameEntries(env) ==
    {i \in DOMAIN env : Len(env[i]) >= 2 /\ env[i][1] = "HOSTNAME" /\ env[i][2] = "="}
EnvValue(env) ==
    IF HostnameEntries(env) = {} THEN <<>>
    ELSE LET i == CHOOSE j \in HostnameEntries(env) :
                      \A k \in HostnameEntries(env) : j <= k
         IN  SubSeq(env[i], 3, Len(env[i]))

\* The three sources of the hostname of a containerd record.
PodNameOf(c) == IF PodName \in DOMAIN c.Labels THEN c.Labels[PodName] ELSE <<>>
SpecHostnameOf(c) == IF c.Spec.isnil THEN <<>> ELSE c.Spec.Hostname
EnvHostnameOf(c) ==
    IF c.Spec.isnil \/ c.Spec.Process.isnil THEN <<>>
    ELSE EnvValue(c.Spec.Process.Env)
FirstNonEmpty(a, b, c) == IF a # <<>> THEN a ELSE IF b # <<>> THEN b ELSE c

\* C17: listing the containerd containers never fails in the hostname
\* derivation, and the hostname of every listed container is the first
\* non-empty value among the label io.kubernetes.pod.name, spec.hostname and
\* the HOSTNAME= entry of spec.process.env.
C17_HostnamePrecedence ==
    (pc = "done" /\ ret.op = "ListContainers") =>
        /\ ~ret.panic
        /\ Len(ret.items) = Len(store)
        /\ \A i \in DOMAIN store :
               ret.items[i].Hostname =
                   FirstNonEmpty(PodNameOf(store[i]), SpecHostnameOf(store[i]),
                                 EnvHostnameOf(store[i]))

\* The pairs of a filter, and the rule of the filter: every pair's key is a
\* label of the container with exactly the pair's value.
IsPair(f) == Len(f) = 3 /\ f[2] = "="
MatchesAll(labels, filters) ==
    \A i \in DOMAIN filters :
        IsPair(filters[i]) =>
            /\ <<filters[i][1]>> \in DOMAIN labels
            /\ labels[<<filters[i][1]>>] = <<filters[i][3]>>
SeqToSet(s) == {s[i] : i \in DOMAIN s}

\* The labels the filter sees: the record of a Docker container carries none.
RecordLabels(i) == IF backend = "containerd" THEN store[i].Labels ELSE NoLabels

\* The part of C18 on list containers.
C18_ListPart ==
    (pc = "done" /\ ret.op = "listContainers" /\ ret.err = "nil") =>
        {c.ID : c \in SeqToSet(ret.listed)} =
            {i \in DOMAIN store : MatchesAll(RecordLabels(i), ret.filters)}

\* C18: with a filter of key=value pairs, list containers lists exactly the
\* containers that carry every pair, ExportAllContainers exports exactly
\* the containers that are not skipped as support containers and carry every
\* pair, and IgnoreContainer ignores exactly the containers that do not
\* carry every pair.
C18_LabelFilter ==
    /\ (pc = "done" /\ ret.op = "listContainers" /\ ret.err = "nil") =>
           {c.ID : c \in SeqToSet(ret.listed)} =
               {i \in DOMAIN store : MatchesAll(RecordLabels(i), ret.filters)}
    /\ (pc = "done" /\ ret.op = "ExportAllContainers" /\ ret.listErr = "nil"
            /\ DockerNamespaces # <<>>) =>
           SeqToSet(ret.exported) =
               {i \in DOMAIN store :
                   /\ ret.exportSupport
                          \/ ~CEContainer(store[i], GetRepositories(<<>>)).SupportContainer
                   /\ MatchesAll(RecordLabels(i), ret.filters)}
    /\ (pc = "done" /\ ret.op = "IgnoreContainer") =>
           (ret.ignored <=> ~MatchesAll(RecordLabels(ret.ctr), ret.filters))

\* The containers MountAllContainers lists, with the support classification
\* of each.
Listed ==
    IF backend = "containerd" THEN DOMAIN store
    ELSE {i \in DOMAIN store : store[i].valid}
IsSupport(i) ==
    IF backend = "containerd" THEN isKubernetesSupportContainer(store[i])
    ELSE CEContainer(store[i], GetRepositories(<<>>)).SupportContainer
NotSkipped == {i \in Listed : ~(ret.skip /\ IsSupport(i))}

\* C19: MountAllContainers calls mount-one once for every listed container
\* that is not skipped and for no other, each at <mountpoint>/<containerID>.
C19_MountsExactlyNotSkipped ==
    (pc = "done" /\ ret.op = "MountAllContainers" /\ ~ret.panic
         /\ ret.err # "no container ID returned") =>
        /\ {m.ID : m \in SeqToSet(ret.mounts)} = NotSkipped
        /\ Len(ret.mounts) = Cardinality(NotSkipped)
        /\ \A m \in SeqToSet(ret.mounts) : m.mountpoint = <<ret.mp, m.ID>>

\* C20: when MkdirAll or MountContainer fails for one container, every
\* later container that is not skipped is still attempted: the command
\* creates its mountpoint directory and, when that succeeds, mounts it.
C20_ContinuesAfterFailure ==
    (pc = "done" /\ ret.op = "MountAllContainers" /\ ~ret.panic
         /\ ret.err # "no container ID returned") =>
        \A i, j \in NotSkipped :
            (i < j /\ (~ret.mkdirok[i] \/ ~ret.mountok[i]) /\ ret.mkdirok[j]) =>
                \E m \in SeqToSet(ret.mounts) : m.ID = j


\* C21: InfoContainer returns the not-found error for an id that is not in
\* the store, and for every stored container a result that is not nil: the
\* spec when only the spec is asked for, the container otherwise.
C21_InfoContainer ==
    (pc = "done" /\ ret.op = "InfoContainer") =>
        IF ret.ctr \in DOMAIN store
        THEN /\ ret.err = "nil"
             /\ ret.info = (IF ret.specOnly THEN "spec" ELSE "container")
        ELSE ret.err = "not found"


\* C22: two successive ListContainers calls of one Docker explorer over the
\* same files return equal results: the same containers in the same order
\* with equal fields, the order of the exposed ports and the friendly image
\* name included.
C22_RepeatedListing ==
    (pc = "done" /\ ret.op = "ListContainers" /\ backend = "docker") =>
        ret.calls[1] = ret.calls[2]


\* C23: ListNamespaces of the Docker explorer returns the namespaces of
\* meta.db when the database was opened, and the one namespace "default"
\* when it was not.
C23_DockerNamespaces ==
    (pc = "done" /\ ret.op = "ListNamespaces" /\ backend = "docker") =>
        ret.items = (IF nss.isnil THEN <<"default">> ELSE nss.list)


\* The number of ExportContainer calls for container i.
ExportCalls(i) == Cardinality({k \in DOMAIN ret.exported : ret.exported[k] = i})

\* C29: ExportAllContainers of the Docker explorer calls ExportContainer
\* once for every container that is neither skipped as a support container
\* nor excluded by the filter and never for another, whatever namespaces
\* ListNamespaces returns.
C29_ExportsEachOnce ==
    (pc = "done" /\ ret.op = "ExportAllContainers" /\ ret.listErr = "nil") =>
        \A i \in DOMAIN store :
            ExportCalls(i) =
                IF /\ ret.exportSupport
                          \/ ~CEContainer(store[i], GetRepositories(<<>>)).SupportContainer
                   /\ MatchesAll(RecordLabels(i), ret.filters)
                THEN 1 ELSE 0


\* C24: a list subcommand run with --output json and --output-file F whose
\* explorer cannot be created or whose list operation fails writes the empty
\* JSON array to F and returns success.
C24_EmptyArrayOnFailure ==
    (pc = "done" /\ ret.op = "list" /\ ret.failed
         /\ ret.flags["output"] = "json" /\ ret.flags["output-file"] # "") =>
        (ret.file = "[]" /\ ret.err = "nil")


\* C26: when MountContainer or ListSnapshots of the containerd explorer has
\* returned, with or without an error, no handle of the snapshot database
\* that it opened is still open.
C26_HandlesClosed ==
    (pc = "done" /\ ret.op \in {"MountContainer", "ListSnapshots"}) =>
        OpenHandles = {}


\* C30: for a file whose stat data is available, GetFileInfo reports the
\* mtime as FileModified, the atime as FileAccessed and the ctime as
\* FileChanged, seconds and nanoseconds both.
C30_FileTimes ==
    (pc = "done" /\ ret.op = "GetFileInfo" /\ ret.ok) =>
        /\ ret.info.FileModified = ret.stat.Mtim
        /\ ret.info.FileAccessed = ret.stat.Atim
        /\ ret.info.FileChanged = ret.stat.Ctim


\* The commands exportContainerImage issued.
Issued(op) == \E k \in DOMAIN ret.ops : ret.ops[k] = op

\* C25: when exportContainerImage returns, losetup -d was issued for every
\* loop device a losetup invocation of the call attached, umount was issued
\* exactly when the loop mount succeeded, and the temporary mount directory
\* was removed when it was created.
C25_ImageCleanup ==
    (pc = "done" /\ ret.op = "exportContainerImage") =>
        /\ \A d \in ret.attached : Issued("losetup -d " \o d)
        /\ Issued("umount") <=> Issued("mount") /\ ret.outcomes.mount
        /\ Issued("mkdirtemp") => Issued("removeall")


\* ---------------------------------------------------------------- export properties
Returned(i) == sessions[i].pc = "returned"
CreatedMountpoint(i) == "mkdir" \in SeqToSet(sessions[i].log)
LogTail(log, n) == IF Len(log) >= n THEN SubSeq(log, Len(log) - n + 1, Len(log)) ELSE <<>>
Count(log, op) == Cardinality({k \in DOMAIN log : log[k] = op})

C28_DistinctMountpoints ==
    \A i, j \in Sessions :
        (i # j /\ sessions[i].pc \in {"mount", "export", "cleanup"}
               /\ sessions[j].pc \in {"mount", "export", "cleanup"}) =>
            sessions[i].mountpoint # sessions[j].mountpoint

====
